---- MODULE Spec2Model ----
(***************************************************************************)
(* Speech-synthesis orchestration engine of prototypus-ai-doc-go           *)
(* (package voicevox): PostToEngine fans the segments of a script out to   *)
(* goroutines bounded by a semaphore, retries the two-phase engine call,   *)
(* collects the results and combines the audio.                            *)
(*                                                                         *)
(* Spec         : engine.go:385-471 (processSegment with retry loop,       *)
(*                one results channel carrying audio or error)             *)
(* SpecInline   : engine.go:37-236  (worker body inline in PostToEngine,   *)
(*                separate error channel, uninterruptible backoff sleep)   *)
(* SpecPrecalc  : part_005:343-457  (styles resolved before the workers)   *)
(* SpecResolver : part_005:254-302  (determineStyleID with the style cache)*)
(* SpecCodec    : audio.go, wav_utils.go (WAV payloads and headers)        *)
(* SpecParser   : part_008:230-471  (scriptParser)                         *)
(* SpecParserInline : script_parser.go:36-223 (parseScript with closures)  *)
(* SpecLoader   : part_001:69-143   (LoadSpeakers)                         *)
(* SpecFair     : Spec with weak fairness of the steps of the run          *)
(* SpecTables   : part_005:254-302  (determineStyleID on any speaker data) *)
(* SpecLarge    : audio.go:86-127   (combineWavData on payload sizes)      *)
(* SpecSplit    : part_008:331-420, script_parser.go:123-149 (the          *)
(*                append-and-split loops turn by turn, any length limit)   *)
(* SpecClient   : client.go         (a request body over the attempts)     *)
(***************************************************************************)
EXTENDS Integers, Sequences, FiniteSets, TLC

(***************************************************************************)
(* Bounds and program constants                                            *)
(***************************************************************************)
\* Largest number of segments parseScript hands to PostToEngine.
NumSegments == 3

\* Width of the semaphore.  The source sets 15 (engine.go:26, 256); the
\* model scales it down so that a script of NumSegments segments fills it.
maxParallelSegments == 2

\* Goroutines that call determineStyleID at the same time (concurrent runs
\* of PostToEngine in one process).
NumCallers == 2

\* Attempts per segment (engine.go:257).
maxRetries == 3

(***************************************************************************)
(* Data                                                                    *)
(***************************************************************************)
\* A tag is a speaker marker followed by a style marker; SpeakerTag is
\* their concatenation, kept here as the pair.
Tags == { <<"[A]", "[Normal]">>, <<"[A]", "[Happy]">>, <<"[B]", "[Normal]">> }

\* The tags of the scripts explored: one that resolves through the
\* speaker's default style and one that does not resolve.
ScriptTags == { <<"[A]", "[Happy]">>, <<"[B]", "[Normal]">> }

\* SpeakerData as LoadSpeakers builds it: tag -> style id, speaker -> default tag.
StyleIDMap == [t \in { <<"[A]", "[Normal]">> } |-> 5]

DefaultStyleMap == [s \in { "[A]" } |-> <<"[A]", "[Normal]">>]

\* reSpeaker `^(\[.+?\])`: the first bracketed group of the tag.
reSpeaker(tag) == tag[1]

NoErr == [idx |-> {}, cause |-> "nil"]

\* An error value: the segment indices its message names (none or one) and
\* the underlying cause.
Err(i, c) == [idx |-> { i }, cause |-> c]

\* ctx.Err(): "context canceled" / "context deadline exceeded"; the message
\* carries no segment index.
CtxErr == [idx |-> {}, cause |-> "ctx"]

\* A WAV buffer past its 44-byte header: the data size the header declares
\* and the payload bytes that follow.
NilWav == [size |-> -1, data |-> <<>>]

Wav(d) == [size |-> Len(d), data |-> d]

\* What the engine answers for segment i: audio that identifies the
\* segment, or a header with an empty data chunk.
WavOutputs(i) == { Wav(<<10 + i>>), Wav(<<>>) }

\* Errors runAudioQuery / runSynthesis return while the context is live
\* (api_client.go:52-55, 84-97): a non-200 status or an undersized body.
QueryErrors == { "http5xx", "http4xx" }

SynthErrors == { "http5xx", "http4xx", "short" }

\* The spec's fatal client errors: 4xx responses and undersized payloads.
FatalCauses == { "http4xx", "short" }

Idx(n) == 0 .. (n - 1)

(***************************************************************************)
(* Pure functions                                                          *)
(***************************************************************************)
\* determineStyleID (engine.go:283-312).
determineStyleIDIgnoringMiss(tag, index) ==
    IF tag \in DOMAIN StyleIDMap
    THEN [styleID |-> StyleIDMap[tag], err |-> NoErr]
    ELSE LET baseSpeakerTag == reSpeaker(tag) IN
         [styleID |-> IF baseSpeakerTag \in DOMAIN DefaultStyleMap
                      THEN StyleIDMap[DefaultStyleMap[baseSpeakerTag]] ELSE 0,
          err |-> NoErr]

determineStyleID(tag, index) ==
    IF tag \in DOMAIN StyleIDMap
    THEN [styleID |-> StyleIDMap[tag], err |-> NoErr]
    ELSE LET baseSpeakerTag == reSpeaker(tag) IN
         IF baseSpeakerTag \in DOMAIN DefaultStyleMap
         THEN LET fallbackKey == DefaultStyleMap[baseSpeakerTag] IN
              [styleID |-> IF fallbackKey \in DOMAIN StyleIDMap
                           THEN StyleIDMap[fallbackKey] ELSE 0,
               err |-> NoErr]
         ELSE [styleID |-> 0, err |-> Err(index, "resolve")]

\* extractAudioData (audio.go:36-56), on the abstract buffer.
extractAudioData(w) ==
    IF w.size < 0 \/ Len(w.data) < w.size
    THEN [ok |-> FALSE, data |-> <<>>, size |-> 0]
    ELSE [ok |-> TRUE, data |-> SubSeq(w.data, 1, w.size), size |-> w.size]

RECURSIVE ConcatData(_)
ConcatData(wavFiles) ==
    IF wavFiles = <<>> THEN <<>>
    ELSE extractAudioData(Head(wavFiles)).data \o ConcatData(Tail(wavFiles))

\* combineWavData (audio.go:94-127).
combineWavData(wavFiles) ==
    IF Len(wavFiles) = 0 THEN [ok |-> FALSE, wav |-> NilWav]
    ELSE IF \E k \in 1 .. Len(wavFiles) : ~extractAudioData(wavFiles[k]).ok
    THEN [ok |-> FALSE, wav |-> NilWav]
    ELSE LET rawData == ConcatData(wavFiles) IN
         IF Len(rawData) = 0 THEN [ok |-> FALSE, wav |-> NilWav]
         ELSE [ok |-> TRUE, wav |-> Wav(rawData)]

\* The non-nil entries of orderedAudioDataList, by ascending index
\* (engine.go:451-456).
RECURSIVE finalAudioDataList(_, _, _)
finalAudioDataList(ordered, i, n) ==
    IF i >= n THEN <<>>
    ELSE (IF ordered[i] = NilWav THEN <<>> ELSE <<ordered[i]>>)
         \o finalAudioDataList(ordered, i + 1, n)

\* The speaker data of another run: the engine lists other style ids.
speakerDataOther ==
    [StyleIDMap |-> [t \in { <<"[A]", "[Normal]">>, <<"[A]", "[Happy]">> } |->
                        IF t[2] = "[Normal]" THEN 7 ELSE 8],
     DefaultStyleMap |-> DefaultStyleMap]

\* SpeakerData as PostToEngine receives it.
speakerData == [StyleIDMap |-> StyleIDMap, DefaultStyleMap |-> DefaultStyleMap]

\* determineStyleID of part_005:254-302, run without interruption: the
\* cache as a parameter, the id, the error and the cache it leaves.
determineStyleIDCached(cache, data, tag, baseSpeakerTag, index) ==
    IF cache[tag].ok
    THEN [styleID |-> cache[tag].id, err |-> NoErr, cache |-> cache]
    ELSE IF tag \in DOMAIN data.StyleIDMap
    THEN LET styleID == data.StyleIDMap[tag] IN
         [styleID |-> styleID, err |-> NoErr,
          cache |-> [cache EXCEPT ![tag] =
                        [ok |-> TRUE, id |-> styleID, torn |-> FALSE]]]
    ELSE IF baseSpeakerTag = ""
    THEN [styleID |-> 0, err |-> Err(index, "resolve"), cache |-> cache]
    ELSE IF baseSpeakerTag \in DOMAIN data.DefaultStyleMap
    THEN LET fallbackKey == data.DefaultStyleMap[baseSpeakerTag]
             styleID == IF fallbackKey \in DOMAIN data.StyleIDMap
                        THEN data.StyleIDMap[fallbackKey] ELSE 0
         IN  [styleID |-> styleID, err |-> NoErr,
              cache |-> [cache EXCEPT ![tag] =
                        [ok |-> TRUE, id |-> styleID, torn |-> FALSE]]]
    ELSE [styleID |-> 0, err |-> Err(index, "resolve"), cache |-> cache]

\* `len(preCalcErrors) == len(segments)` (part_005:376).
allPreCalcFailedNever(errs, n) == Len(errs) > n

allPreCalcFailed(errs, n) == Len(errs) = n

\* Where the aggregation stores a successful result: at the slot of its
\* original index (engine.go:438-443).
placeResultByArrival(ordered, res, n) ==
    LET free == { k \in Idx(n) : ordered[k] = NilWav } IN
    IF free = {} THEN ordered
    ELSE [ordered EXCEPT ![CHOOSE k \in free : \A j \in free : k <= j] = res.wavData]

placeResult(ordered, res, n) ==
    IF res.index >= 0 /\ res.index < n
    THEN [ordered EXCEPT ![res.index] = res.wavData]
    ELSE ordered

\* `if attempt < maxRetries` (engine.go:155, 345): a failed attempt is
\* retried while attempts remain.
mayRetryOffByOne(a) == a <= maxRetries

mayRetry(a) == a < maxRetries

\* retryDelay (engine.go:259, 53), in milliseconds.
retryDelay == 2000

\* The delay of part_005:628, which is the same after every failed attempt.
backoffDelayConstant(a) == retryDelay

\* backoffDelay (engine.go:347, 162):
\* retryDelay * time.Duration(1<<(attempt-1))
backoffDelay(a) ==
    LET RECURSIVE shiftLeft(_, _)
        shiftLeft(v, n) == IF n = 0 THEN v ELSE shiftLeft(2 * v, n - 1)
    IN  retryDelay * shiftLeft(1, a - 1)

(***************************************************************************)
(* The script parser. A string is the sequence of its runes.               *)
(***************************************************************************)
\* maxSegmentCharLength (part_008:245), scaled from 250.
maxSegmentCharLength == 4

\* strings.TrimSpace
TrimSpace(str) ==
    LET kept == { k \in DOMAIN str : str[k] # " " } IN
    IF kept = {} THEN << >>
    ELSE SubSeq(str, CHOOSE a \in kept : \A b \in kept : a <= b,
                     CHOOSE a \in kept : \A b \in kept : a >= b)

\* strings.Split(script, "\n")
RECURSIVE Split(_)
Split(str) ==
    IF \A k \in DOMAIN str : str[k] # "\n" THEN << str >>
    ELSE LET k == CHOOSE j \in DOMAIN str :
                      str[j] = "\n" /\ \A i \in 1 .. j - 1 : str[i] # "\n"
         IN  << SubSeq(str, 1, k - 1) >> \o Split(SubSeq(str, k + 1, Len(str)))

\* reScriptParse.FindStringSubmatch (part_008:242):
\* ^(\[.+?\])\s*(\[.+?\])\s*(.*) with the shortest first group after which
\* the second group matches, and the shortest second group.
reScriptParse(str) ==
    LET \* the first position from i on that holds no space (\s*)
        skipSpace(i) ==
            IF \E k \in i .. Len(str) : str[k] # " "
            THEN CHOOSE k \in i .. Len(str) :
                     str[k] # " " /\ \A j \in i .. k - 1 : str[j] = " "
            ELSE Len(str) + 1
        \* where a group \[.+?\] that starts at i may end
        groupEnds(i) ==
            IF i <= Len(str) /\ str[i] = "["
            THEN { k \in i + 2 .. Len(str) : str[k] = "]" }
            ELSE {}
        Min(S) == CHOOSE m \in S : \A n \in S : m <= n
        first == { k \in groupEnds(1) : groupEnds(skipSpace(k + 1)) # {} }
    IN  IF first = {}
        THEN [ok |-> FALSE, speakerTag |-> << >>, vvStyleTag |-> << >>,
              textPart |-> << >>]
        ELSE LET e1 == Min(first)
                 s2 == skipSpace(e1 + 1)
                 e2 == Min(groupEnds(s2))
             IN  [ok |-> TRUE,
                  speakerTag |-> SubSeq(str, 1, e1),
                  vvStyleTag |-> SubSeq(str, s2, e2),
                  textPart |-> SubSeq(str, skipSpace(e2 + 1), Len(str))]

\* reEmotionParse.ReplaceAllString(text, "") (part_008:243, 432): one pass
\* from the left that drops every [word] of emotionTagsPattern, which is
\* scaled to the one word "e" (part_008:239).
RECURSIVE reEmotionRemove(_)
reEmotionRemove(str) ==
    IF str = << >> THEN << >>
    ELSE IF Len(str) >= 3 /\ str[1] = "[" /\ str[2] = "e" /\ str[3] = "]"
    THEN reEmotionRemove(SubSeq(str, 4, Len(str)))
    ELSE << Head(str) >> \o reEmotionRemove(Tail(str))

\* newScriptParser (part_008:258-263). splitAt is history: how many segments
\* had been emitted at each flush that a text over the budget forced.
newScriptParser(fallbackTag) ==
    [segments |-> << >>, currentTag |-> << >>, currentText |-> << >>,
     textBuffer |-> << >>, fallbackTag |-> fallbackTag, splitAt |-> {}]

\* addSegment (part_008:431-440)
addSegment(p, tag, text) ==
    LET finalText == TrimSpace(reEmotionRemove(text)) IN
    IF finalText # << >>
    THEN [p EXCEPT !.segments = Append(@, [SpeakerTag |-> tag, Text |-> finalText])]
    ELSE p

\* flushCurrentSegment (part_008:423-428)
flushCurrentSegment(p) ==
    LET q == IF p.currentText # << >> /\ p.currentTag # << >>
             THEN addSegment(p, p.currentTag, p.currentText) ELSE p
    IN  [q EXCEPT !.currentText = << >>]

\* splitTextByPunctuation (part_008:357-420); the marks of line 396 are
\* scaled to the one mark ".";
\* maxChars is the value of the constant maxSegmentCharLength (245).
splitTextByPunctuationWithin(maxChars, p, text) ==
    LET currentRuneCount == Len(p.currentText)
        space == IF currentRuneCount > 0 THEN 1 ELSE 0
        maxCapacity == maxChars - currentRuneCount - space
        \* the i + 1 of the loop of lines 387-399
        splits == { n \in 1 .. Len(text) :
                        /\ currentRuneCount + space + n <= maxChars
                        /\ text[n] = "." }
    IN  IF currentRuneCount + space + Len(text) <= maxChars
        THEN [partToAdd |-> text, remainder |-> << >>]
        ELSE IF maxCapacity <= 0
        THEN [partToAdd |-> << >>, remainder |-> text]
        ELSE IF splits # {}
        THEN LET bestSplitIndex == CHOOSE n \in splits : \A m \in splits : m <= n IN
             [partToAdd |-> SubSeq(text, 1, bestSplitIndex),
              remainder |-> SubSeq(text, bestSplitIndex + 1, Len(text))]
        ELSE IF maxCapacity > 0 /\ maxCapacity < Len(text)
        THEN [partToAdd |-> SubSeq(text, 1, maxCapacity),
              remainder |-> SubSeq(text, maxCapacity + 1, Len(text))]
        ELSE [partToAdd |-> text, remainder |-> << >>]

\* splitTextByPunctuation with the constant of part_008:245.
splitTextByPunctuation(p, text) ==
    splitTextByPunctuationWithin(maxSegmentCharLength, p, text)

\* appendAndSplitText (part_008:331-353)
RECURSIVE appendAndSplitText(_, _)
appendAndSplitText(p, text) ==
    IF text = << >> THEN p
    ELSE LET sp == splitTextByPunctuation(p, text)
             q == IF sp.partToAdd # << >>
                  THEN [p EXCEPT !.currentText =
                           (IF @ # << >> THEN @ \o << " " >> ELSE @) \o sp.partToAdd]
                  ELSE p
         IN  IF sp.remainder # << >>
             THEN LET r == flushCurrentSegment(q) IN
                  appendAndSplitText([r EXCEPT !.splitAt = @ \cup { Len(r.segments) }],
                                     sp.remainder)
             ELSE q

\* processTaggedLine without the flush of part_008:310-312.
processTaggedLineKeepsOpen(p, tag, text) ==
    appendAndSplitText([p EXCEPT !.currentTag = tag], text)

\* processTaggedLine (part_008:308-316)
processTaggedLine(p, tag, text) ==
    LET q == IF p.currentTag # << >> /\ tag # p.currentTag
             THEN flushCurrentSegment(p) ELSE p
    IN  appendAndSplitText([q EXCEPT !.currentTag = tag], text)

\* processUntaggedLine (part_008:319-328)
processUntaggedLine(p, text) ==
    IF p.currentTag # << >>
    THEN appendAndSplitText(p, text)
    ELSE [p EXCEPT !.textBuffer = text]

\* processLine (part_008:283-305)
processLine(p, line) ==
    IF line = << >> THEN p
    ELSE LET textToProcess == IF p.textBuffer # << >>
                              THEN p.textBuffer \o << " " >> \o line ELSE line
             q == [p EXCEPT !.textBuffer = << >>]
             matches == reScriptParse(textToProcess)
         IN  IF matches.ok
             THEN processTaggedLine(q, matches.speakerTag \o matches.vvStyleTag,
                                    matches.textPart)
             ELSE processUntaggedLine(q, textToProcess)

\* finishParsing (part_008:443-464)
finishParsing(p) ==
    LET q == flushCurrentSegment(p) IN
    IF q.textBuffer # << >>
    THEN IF Len(q.segments) > 0
         THEN addSegment(q, q.segments[Len(q.segments)].SpeakerTag, q.textBuffer)
         ELSE IF q.fallbackTag # << >>
         THEN addSegment(q, q.fallbackTag, q.textBuffer)
         ELSE q
    ELSE q

\* parseScript (part_008:467-470) and parse (266-279)
parseScript(scr, fallbackTag) ==
    LET RECURSIVE parseLines(_, _)
        parseLines(p, ls) ==
            IF ls = << >> THEN p
            ELSE LET trimmedLine == TrimSpace(Head(ls)) IN
                 parseLines(IF trimmedLine = << >> THEN p
                            ELSE processLine(p, trimmedLine),
                            Tail(ls))
    IN  finishParsing(parseLines(newScriptParser(fallbackTag), Split(scr))).segments

(***************************************************************************)
(* The older parseScript of script_parser.go:36-223 (part_008:33-228 with  *)
(* the fallback tag as a parameter): one function with closures.           *)
(***************************************************************************)
\* safeSplit (script_parser.go:45-63); maxChars is the value of the
\* constant maxSegmentCharLength (22).
safeSplitWithin(maxChars, p, text) ==
    LET totalChars == Len(p.currentText) + 1 + Len(text)
        remainingCapacity == maxChars - (Len(p.currentText) + 1)
    IN  IF totalChars <= maxChars
        THEN [partToAdd |-> text, remainder |-> << >>]
        ELSE IF remainingCapacity <= 0
        THEN [partToAdd |-> << >>, remainder |-> text]
        ELSE LET charsToTake == IF remainingCapacity > Len(text)
                                THEN Len(text) ELSE remainingCapacity
             IN  [partToAdd |-> SubSeq(text, 1, charsToTake),
                  remainder |-> SubSeq(text, charsToTake + 1, Len(text))]

\* safeSplit with the constant of script_parser.go:22.
safeSplit(p, text) == safeSplitWithin(maxSegmentCharLength, p, text)

\* flushSegment (script_parser.go:66-80)
flushSegment(p, tag, text) ==
    IF text = << >> \/ tag = << >> THEN p
    ELSE LET finalText == TrimSpace(reEmotionRemove(text)) IN
         IF finalText # << >>
         THEN [p EXCEPT !.segments = Append(@, [SpeakerTag |-> tag, Text |-> finalText])]
         ELSE p

\* flushAndReset (script_parser.go:83-88)
flushAndReset(p) ==
    LET q == IF p.currentText # << >> /\ p.currentTag # << >>
             THEN flushSegment(p, p.currentTag, p.currentText) ELSE p
    IN  [q EXCEPT !.currentText = << >>]

\* The body of the main loop for a trimmed, non-empty line
\* (script_parser.go:97-186), with its two loops of 123-149 and 158-178.
parseScriptLine(p, line) ==
    LET appendPart(a, partToAdd) ==
            IF partToAdd # << >>
            THEN [a EXCEPT !.currentText =
                     (IF @ # << >> THEN @ \o << " " >> ELSE @) \o partToAdd]
            ELSE a
        RECURSIVE appendTagged(_, _, _)
        appendTagged(a, newCombinedTag, fullTextToAppend) ==
            IF fullTextToAppend = << >> THEN a
            ELSE LET b == IF a.currentTag = << >>
                          THEN [a EXCEPT !.currentTag = newCombinedTag] ELSE a
                     sp == safeSplit(b, fullTextToAppend)
                     c == appendPart(b, sp.partToAdd)
                 IN  IF sp.remainder # << >>
                     THEN LET r == flushAndReset(c) IN
                          appendTagged([r EXCEPT
                                            !.currentTag = newCombinedTag,
                                            !.splitAt = @ \cup { Len(r.segments) }],
                                       newCombinedTag, sp.remainder)
                     ELSE c
        RECURSIVE appendUntagged(_, _)
        appendUntagged(a, textToAppend) ==
            IF textToAppend = << >> THEN a
            ELSE LET sp == safeSplit(a, textToAppend)
                     c == appendPart(a, sp.partToAdd)
                 IN  IF sp.remainder # << >>
                     THEN LET r == flushAndReset(c) IN
                          appendUntagged([r EXCEPT !.splitAt = @ \cup { Len(r.segments) }],
                                         sp.remainder)
                     ELSE c
        textToProcess == IF p.textBuffer # << >>
                         THEN p.textBuffer \o << " " >> \o line ELSE line
        q == [p EXCEPT !.textBuffer = << >>]
        matches == reScriptParse(textToProcess)
    IN  IF matches.ok
        THEN LET tag == matches.speakerTag \o matches.vvStyleTag
                 r == IF q.currentTag # << >> /\ tag # q.currentTag
                      THEN [flushAndReset(q) EXCEPT !.currentTag = << >>] ELSE q
             IN  appendTagged(r, tag, matches.textPart)
        ELSE IF q.currentTag # << >>
        THEN appendUntagged(q, textToProcess)
        ELSE [q EXCEPT !.textBuffer = textToProcess]

\* What follows the main loop (script_parser.go:190-219).
parseScriptEndDropsLeftover(p) == flushAndReset(p)

parseScriptEnd(p) ==
    LET q == flushAndReset(p) IN
    IF q.textBuffer # << >>
    THEN IF Len(q.segments) > 0
         THEN flushSegment(q, q.segments[Len(q.segments)].SpeakerTag, q.textBuffer)
         ELSE IF q.fallbackTag # << >>
         THEN flushSegment(q, q.fallbackTag, q.textBuffer)
         ELSE q
    ELSE q

(***************************************************************************)
(* LoadSpeakers (part_001:69-143; part_000:215-294 is the same from the    *)
(* decoding on).                                                           *)
(***************************************************************************)
\* SupportedSpeakers (part_001:25-28)
SupportedSpeakers ==
    << [APIName |-> "A", ToolTag |-> "[A]"], [APIName |-> "B", ToolTag |-> "[B]"] >>

\* VvTagNormal (part_001:32)
VvTagNormal == "[Normal]"

\* styleApiNameToToolTag (part_001:40-46), scaled from five styles to two.
styleApiNameToToolTag == [n \in { "Normal", "Happy" } |->
                              IF n = "Normal" THEN VvTagNormal ELSE "[Happy]"]

\* A SpeakerData without entries (part_001:94-98).
NoSpeakerData == [StyleIDMap |-> [t \in {} |-> 0], DefaultStyleMap |-> [t \in {} |-> << >>]]

\* One turn of the loop over the response (part_001:101-124): the entries
\* speaker spk adds to data.
loadSpeaker(data, spk) ==
    LET apiNameToToolTag ==
            [n \in { SupportedSpeakers[k].APIName : k \in DOMAIN SupportedSpeakers } |->
                 SupportedSpeakers[CHOOSE k \in DOMAIN SupportedSpeakers :
                      /\ SupportedSpeakers[k].APIName = n
                      /\ \A j \in DOMAIN SupportedSpeakers :
                             SupportedSpeakers[j].APIName = n => j <= k].ToolTag]
        RECURSIVE addStyles(_, _, _)
        addStyles(d, toolTag, styles) ==
            IF styles = << >> THEN d
            ELSE LET style == Head(styles) IN
                 IF style.Name \notin DOMAIN styleApiNameToToolTag
                 THEN addStyles(d, toolTag, Tail(styles))
                 ELSE LET styleTag == styleApiNameToToolTag[style.Name]
                          combinedTag == << toolTag, styleTag >>
                          withID == [d EXCEPT !.StyleIDMap =
                                         (combinedTag :> style.ID) @@ @]
                      IN  addStyles(IF styleTag = VvTagNormal
                                    THEN [withID EXCEPT !.DefaultStyleMap =
                                              (toolTag :> combinedTag) @@ @]
                                    ELSE withID,
                                    toolTag, Tail(styles))
    IN  IF spk.Name \notin DOMAIN apiNameToToolTag THEN data
        ELSE addStyles(data, apiNameToToolTag[spk.Name], spk.Styles)

\* missingDefaults (part_001:127-134): the supported speakers without an
\* entry in DefaultStyleMap.
missingDefaultsNone(data) == << >>

missingDefaults(data) ==
    SelectSeq(SupportedSpeakers, LAMBDA mapping :
                  mapping.ToolTag \notin DOMAIN data.DefaultStyleMap)

(***************************************************************************)
(* State                                                                   *)
(***************************************************************************)
VARIABLES
    segments,       \* parseScript's result: index -> tag (texts are non-empty)
    mainPc,         \* position of PostToEngine
    next,           \* loop index of the launch loop
    semaphore,      \* number of permits held
    wg,             \* WaitGroup counter
    pc,             \* position of each segment's goroutine
    attempt,        \* loop variable of the retry loop
    currentErr,     \* the failed call, its error and backoffDelay, while backing off
    expired,        \* segCtx has passed segmentTimeout
    cancelled,      \* the caller's ctx is done
    resultsChan,    \* buffered channel of segmentResult
    errChan,        \* buffered channel of error (engine.go:46)
    allErrors,      \* collected error values
    orderedAudioDataList,
    consumed,       \* indices of the results the aggregation has received
    ret,            \* what PostToEngine returned
    written,        \* buffers handed to os.WriteFile
    audio,          \* history: the audio runSynthesis returned per segment
    retryOf,        \* history: the failed call a pending runAudioQuery retries
    request,        \* the client call each goroutine has made and not left
    produced,       \* history: values each goroutine sent on a channel
    cancelledInFlight,  \* history: ctx was cancelled during a call or backoff
    preCalc,        \* scriptSegment.StyleID and .Err, set by the pre-calculation
    preCalcErrors,  \* messages of the failed pre-calculations (part_005:355)
    styleIDCache,   \* package-level map tag -> style id (part_005:228)
    styleIDCacheMutex,  \* sync.RWMutex: the read holders and the write holder
    resolving,      \* each caller's call of determineStyleID and its locals
    cacheWrites,    \* history: per tag, the callers that stored it, in order
    wavBuffers,     \* the WAV byte slices handed to combineWavData
    codecResult,    \* what the last call on wavBuffers returned
    script,         \* the script handed to parseScript
    lines,          \* the lines of the script the parser has not read yet
    parser,         \* the fields of the scriptParser
    parserPc,       \* where parse is: "idle", "parsing", "finished"
    textToAppend,   \* the text the append-and-split loop has still to place
    charLimit,      \* the value the build gives maxSegmentCharLength
    vvSpeakers,     \* the decoded response of /speakers
    loadPc,         \* where LoadSpeakers is: "idle", "get", "loop", "returned"
    loadNext,       \* loop index of the loop over vvSpeakers
    loadData,       \* the SpeakerData under construction
    loadRet,        \* what LoadSpeakers returned
    body,           \* the io.Reader handed to DoRequest: its bytes and offset
    requests,       \* history: the body of each request DoRequest has made
    clientPc        \* where DoRequest is: "idle", "op", "returned"

\* The variables of PostToEngine and its goroutines.
engineVars == << segments, mainPc, next, semaphore, wg, pc, attempt,
                 currentErr, expired, cancelled, resultsChan, errChan,
                 allErrors, orderedAudioDataList, consumed, ret, written,
                 audio, retryOf, request, produced, cancelledInFlight >>

\* The variables of the pre-calculation of part_005:352-378.
precalcVars == << preCalc, preCalcErrors >>

\* The package-level style cache of part_005:226-231.
cacheVars == << styleIDCache, styleIDCacheMutex, resolving, cacheWrites >>

\* The arguments and the result of the WAV functions of audio.go.
codecVars == << wavBuffers, codecResult >>

\* The script parser and its input.
parserVars == << script, lines, parser, parserPc, textToAppend, charLimit >>

\* LoadSpeakers' input, locals and result.
loaderVars == << vvSpeakers, loadPc, loadNext, loadData, loadRet >>

\* The reader DoRequest was given and the requests it has made.
clientVars == << body, requests, clientPc >>

\* What the PostToEngine of engine.go has no part in.
restVars == << precalcVars, cacheVars, codecVars, parserVars, loaderVars,
              clientVars >>

vars == << engineVars, restVars >>

\* The variables only PostToEngine's own goroutine writes.
mainVars == << mainPc, next, allErrors, orderedAudioDataList, consumed, ret,
              written >>

\* LoadSpeakers has not been called.
LoaderIdle ==
    /\ vvSpeakers = << >>
    /\ loadPc = "idle"
    /\ loadNext = 1
    /\ loadData = NoSpeakerData
    /\ loadRet = [data |-> NoSpeakerData, ok |-> FALSE, err |-> "nil"]

\* No append-and-split loop is being followed turn by turn; the limit is the
\* constant.
SplitIdle ==
    /\ textToAppend = << >>
    /\ charLimit = maxSegmentCharLength

\* DoRequest has not been called.
ClientIdle ==
    /\ body = [data |-> << >>, off |-> 0]
    /\ requests = << >>
    /\ clientPc = "idle"

N == Cardinality(DOMAIN segments)

Running == [kind |-> "running", errors |-> <<>>]

NoCall == [phase |-> "none", cause |-> "nil", delay |-> 0]

\* The context the goroutine of segment i passes to its calls is done:
\* segCtx (engine.go:78, 414) is derived from ctx with segmentTimeout and
\* spans every attempt of the segment.
CtxDoneParentOnly(i) == cancelled

CtxDone(i) == cancelled \/ expired[i]

\* The request of a client call: runAudioQuery(text, styleID, ctx) or
\* runSynthesis(queryBody, styleID, ctx) (engine.go:334-337).  A text is
\* named by the index of its segment; a query payload by the request and
\* the attempt it answers.
NoRequest ==
    [op |-> "none", text |-> -1,
     payload |-> [text |-> -1, voiceID |-> 0, attempt |-> 0], voiceID |-> 0]

QueryRequest(i, styleID) ==
    [NoRequest EXCEPT !.op = "query", !.text = i, !.voiceID = styleID]

QueryPayload(req, a) == [text |-> req.text, voiceID |-> req.voiceID, attempt |-> a]

SynthRequestOtherVoice(queryBody, styleID) ==
    [op |-> "synth", text |-> -1, payload |-> queryBody, voiceID |-> 0]

SynthRequest(queryBody, styleID) ==
    [op |-> "synth", text |-> -1, payload |-> queryBody, voiceID |-> styleID]

segmentResult(i, w, e) == [index |-> i, wavData |-> w, err |-> e]

\* The state of a run of PostToEngine right after parseScript, about to
\* continue at position start.
InitRun(start) ==
    /\ \E n \in 0 .. NumSegments : segments \in [Idx(n) -> ScriptTags]
    /\ mainPc = start
    /\ next = 0
    /\ semaphore = 0
    /\ wg = 0
    /\ pc = [i \in DOMAIN segments |-> "pending"]
    /\ attempt = [i \in DOMAIN segments |-> 0]
    /\ currentErr = [i \in DOMAIN segments |-> NoCall]
    /\ expired = [i \in DOMAIN segments |-> FALSE]
    /\ cancelled = FALSE
    /\ resultsChan = <<>>
    /\ errChan = <<>>
    /\ allErrors = <<>>
    /\ orderedAudioDataList = [i \in DOMAIN segments |-> NilWav]
    /\ consumed = <<>>
    /\ ret = Running
    /\ written = <<>>
    /\ audio = [i \in DOMAIN segments |-> NilWav]
    /\ retryOf = [i \in DOMAIN segments |-> "none"]
    /\ request = [i \in DOMAIN segments |-> NoRequest]
    /\ produced = [i \in DOMAIN segments |-> 0]
    /\ cancelledInFlight = FALSE

InitEngine == InitRun("launch")

\* The zero values of scriptSegment.StyleID and scriptSegment.Err.
NoStyle == [styleID |-> 0, err |-> NoErr]

\* A lookup in a Go map gives the value and whether the key is present.
NoEntry == [ok |-> FALSE, id |-> 0, torn |-> FALSE]

Entry(id) == [ok |-> TRUE, id |-> id, torn |-> FALSE]

\* A map slot while `styleIDCache[tag] = styleID` is storing into it.
TornEntry == [ok |-> TRUE, id |-> 0, torn |-> TRUE]

\* The RWMutex with no holder; callers are numbered from 1.
Unlocked == [readers |-> {}, writer |-> 0]

NoReturn == [styleID |-> 0, err |-> NoErr, hit |-> FALSE, torn |-> FALSE, from |-> 0]

\* A caller outside determineStyleID.
Idle(data) == [pc |-> "idle", data |-> data, tag |-> <<"", "">>, styleID |-> 0,
               ret |-> NoReturn]

EmptyCache == [t \in Tags |-> NoEntry]

\* No WAV function has been called.
NoResult == [op |-> "none", index |-> 0, kind |-> "none", data |-> << >>,
             size |-> [lo |-> 0, hi |-> 0]]

\* No pre-calculation has run and the style cache is empty.
InitRest ==
    /\ preCalc = [i \in DOMAIN segments |-> NoStyle]
    /\ preCalcErrors = <<>>
    /\ styleIDCache = EmptyCache
    /\ styleIDCacheMutex = Unlocked
    /\ resolving = << >>
    /\ cacheWrites = [t \in Tags |-> << >>]
    /\ wavBuffers = << >>
    /\ codecResult = NoResult
    /\ script = << >>
    /\ lines = << >>
    /\ parser = newScriptParser(<< >>)
    /\ parserPc = "idle"
    /\ SplitIdle
    /\ LoaderIdle
    /\ ClientIdle

Init == InitEngine /\ InitRest

(***************************************************************************)
(* Environment                                                             *)
(***************************************************************************)
\* The goroutine of segment i holds a semaphore permit.
InFlight(i) == pc[i] \in { "started", "query", "synth", "backoff" }

\* It is at a suspension point: inside a client call or a backoff wait.
InCall(i) == pc[i] \in { "query", "synth", "backoff" }

\* The caller cancels ctx (or its deadline passes) during the run.
Cancel ==
    /\ ~cancelled
    /\ mainPc # "returned"
    /\ cancelled' = TRUE
    /\ cancelledInFlight' = (\E i \in DOMAIN segments : InCall(i))
    /\ UNCHANGED << segments, restVars, mainVars, semaphore, wg, pc, attempt,
                    currentErr, expired, resultsChan, errChan, audio, produced, retryOf, request >>

\* segmentTimeout passes for a running goroutine's segCtx
\* (context.WithTimeout, engine.go:78, 414).
Expire(i) ==
    /\ InFlight(i)
    /\ ~expired[i]
    /\ expired' = [expired EXCEPT ![i] = TRUE]
    /\ UNCHANGED << segments, restVars, mainVars, semaphore, wg, pc, attempt,
                    currentErr, cancelled, resultsChan, errChan, audio, produced,
                    retryOf, request, cancelledInFlight >>

(***************************************************************************)
(* PostToEngine, engine.go:385-471                                         *)
(***************************************************************************)
\* `if len(segments) == 0` (engine.go:41, 389; part_005:348).
noSegmentsNever(n) == n < 0

noSegments(n) == n = 0

\* engine.go:41-43, 389-391
ReturnNoSegments ==
    /\ mainPc = "launch"
    /\ noSegments(N)
    /\ ret' = [kind |-> "noSegments", errors |-> <<>>]
    /\ mainPc' = "returned"
    /\ UNCHANGED << segments, restVars, next, allErrors, orderedAudioDataList,
                    consumed, written, semaphore, wg, pc, attempt, currentErr,
                    expired, cancelled, resultsChan, errChan, audio, produced, retryOf, request,
                    cancelledInFlight >>

\* `semaphore <- struct{}{}` (engine.go:71, 407) can proceed.
semaphoreFreeOffByOne == semaphore <= maxParallelSegments

semaphoreFree == semaphore < maxParallelSegments

\* engine.go:402-410: acquire a permit, wg.Add(1), start the goroutine.
\* (parseScript emits no segment with empty text, so line 403 never skips.)
Launch ==
    /\ mainPc = "launch"
    /\ next < N
    /\ semaphoreFree
    /\ semaphore' = semaphore + 1
    /\ wg' = wg + 1
    /\ pc' = [pc EXCEPT ![next] = "started"]
    /\ next' = next + 1
    /\ UNCHANGED << segments, restVars, mainPc, allErrors, orderedAudioDataList,
                    consumed, ret, written, attempt, currentErr, expired,
                    cancelled, resultsChan, errChan, audio, produced, retryOf, request,
                    cancelledInFlight >>

\* A goroutine that returns without the deferred release of engine.go:412.
exitGoroutineKeepsPermit(i) ==
    /\ pc' = [pc EXCEPT ![i] = "exited"]
    /\ attempt' = [attempt EXCEPT ![i] = 0]
    /\ currentErr' = [currentErr EXCEPT ![i] = NoCall]
    /\ retryOf' = [retryOf EXCEPT ![i] = "none"]
    /\ request' = [request EXCEPT ![i] = NoRequest]
    /\ expired' = [expired EXCEPT ![i] = FALSE]
    /\ semaphore' = semaphore
    /\ wg' = wg - 1

\* The goroutine returns; its deferred calls (engine.go:75-79, 411-415)
\* cancel segCtx, release the permit and call wg.Done().
exitGoroutine(i) ==
    /\ pc' = [pc EXCEPT ![i] = "exited"]
    /\ attempt' = [attempt EXCEPT ![i] = 0]
    /\ currentErr' = [currentErr EXCEPT ![i] = NoCall]
    /\ retryOf' = [retryOf EXCEPT ![i] = "none"]
    /\ request' = [request EXCEPT ![i] = NoRequest]
    /\ expired' = [expired EXCEPT ![i] = FALSE]
    /\ semaphore' = semaphore - 1
    /\ wg' = wg - 1

\* processSegment returns r and the goroutine sends it (engine.go:418-419);
\* the channel holds len(segments) results, so the send never blocks.
ReturnResult(i, r) ==
    /\ resultsChan' = Append(resultsChan, r)
    /\ audio' = IF r.err = NoErr THEN [audio EXCEPT ![i] = r.wavData] ELSE audio
    /\ produced' = [produced EXCEPT ![i] = @ + 1]
    /\ exitGoroutine(i)
    /\ UNCHANGED errChan

\* The retry loop reaches attempt number a (engine.go:323-334): the loop
\* condition, the context check, then the call of runAudioQuery.
beginAttemptSamePhase(i, a) ==
    IF a > maxRetries
    THEN ReturnResult(i, segmentResult(i, NilWav, Err(i, "unknown")))
    ELSE IF CtxDone(i)
    THEN ReturnResult(i, segmentResult(i, NilWav, CtxErr))
    ELSE /\ pc' = [pc EXCEPT ![i] = IF currentErr[i].phase = "synth"
                                    THEN "synth" ELSE "query"]
         /\ attempt' = [attempt EXCEPT ![i] = a]
         /\ retryOf' = [retryOf EXCEPT ![i] = currentErr[i].phase]
         /\ request' = [request EXCEPT ![i] =
                           IF currentErr[i].phase = "synth" THEN @
                           ELSE QueryRequest(i, determineStyleID(segments[i], i).styleID)]
         /\ currentErr' = [currentErr EXCEPT ![i] = NoCall]
         /\ UNCHANGED << resultsChan, errChan, audio, produced, expired,
                         semaphore, wg >>

beginAttempt(i, a) ==
    IF a > maxRetries
    THEN ReturnResult(i, segmentResult(i, NilWav, Err(i, "unknown")))
    ELSE IF CtxDone(i)
    THEN ReturnResult(i, segmentResult(i, NilWav, CtxErr))
    ELSE /\ pc' = [pc EXCEPT ![i] = "query"]
         /\ attempt' = [attempt EXCEPT ![i] = a]
         /\ retryOf' = [retryOf EXCEPT ![i] = currentErr[i].phase]
         /\ request' = [request EXCEPT ![i] =
                           QueryRequest(i, determineStyleID(segments[i], i).styleID)]
         /\ currentErr' = [currentErr EXCEPT ![i] = NoCall]
         /\ UNCHANGED << resultsChan, errChan, audio, produced, expired, semaphore, wg >>

\* processSegment up to its first call (engine.go:315-334).
StartSegment(i) ==
    /\ pc[i] = "started"
    /\ LET r == determineStyleID(segments[i], i) IN
       IF r.err # NoErr
       THEN ReturnResult(i, segmentResult(i, NilWav, r.err))
       ELSE beginAttempt(i, 1)
    /\ UNCHANGED << segments, restVars, mainVars, cancelled, cancelledInFlight >>

\* engine.go:345-372: what follows a failed call.
attemptFailed(i, phase, cause) ==
    IF mayRetry(attempt[i])
    THEN /\ pc' = [pc EXCEPT ![i] = "backoff"]
         /\ currentErr' = [currentErr EXCEPT ![i] = [phase |-> phase, cause |-> cause,
                                             delay |-> backoffDelay(attempt[i])]]
         /\ retryOf' = [retryOf EXCEPT ![i] = "none"]
         /\ UNCHANGED request
         /\ UNCHANGED << resultsChan, errChan, audio, produced, attempt, expired,
                         semaphore, wg >>
    ELSE ReturnResult(i, segmentResult(i, NilWav, Err(i, cause)))

\* runAudioQuery returns (engine.go:334-337); on success runSynthesis is
\* called.  A call that returns once its context is done returns the
\* context's error.
QueryReturn(i) ==
    /\ pc[i] = "query"
    /\ \E out \in (IF CtxDone(i) THEN { "ctx" } ELSE { "ok" } \cup QueryErrors) :
         IF out = "ok"
         THEN /\ pc' = [pc EXCEPT ![i] = "synth"]
              /\ retryOf' = [retryOf EXCEPT ![i] = "none"]
              /\ request' = [request EXCEPT ![i] =
                                SynthRequest(QueryPayload(@, attempt[i]), @.voiceID)]
              /\ UNCHANGED << resultsChan, errChan, audio, produced, attempt,
                              currentErr, expired, semaphore, wg >>
         ELSE attemptFailed(i, "query", out)
    /\ UNCHANGED << segments, restVars, mainVars, cancelled, cancelledInFlight >>

\* runSynthesis returns (engine.go:336-342).
SynthReturn(i) ==
    /\ pc[i] = "synth"
    /\ \/ /\ ~CtxDone(i)
          /\ \E w \in WavOutputs(i) : ReturnResult(i, segmentResult(i, w, NoErr))
       \/ \E cause \in (IF CtxDone(i) THEN { "ctx" } ELSE SynthErrors) :
            attemptFailed(i, "synth", cause)
    /\ UNCHANGED << segments, restVars, mainVars, cancelled, cancelledInFlight >>

\* engine.go:362-368: select on ctx.Done() and the backoff timer (with both
\* ready Go picks either), then the next iteration of the loop.
BackoffDone(i) ==
    /\ pc[i] = "backoff"
    /\ \/ /\ CtxDone(i)
          /\ ReturnResult(i, segmentResult(i, NilWav, CtxErr))
       \/ beginAttempt(i, attempt[i] + 1)
    /\ UNCHANGED << segments, restVars, mainVars, cancelled, cancelledInFlight >>

\* engine.go:427-428: wg.Wait() returns, close(resultsChan).
WaitAll ==
    /\ mainPc = "launch"
    /\ ~noSegments(N)
    /\ next = N
    /\ wg = 0
    /\ mainPc' = "collect"
    /\ UNCHANGED << segments, restVars, next, allErrors, orderedAudioDataList,
                    consumed, ret, written, semaphore, wg, pc, attempt,
                    currentErr, expired, cancelled, resultsChan, errChan,
                    audio, produced, retryOf, request, cancelledInFlight >>

\* One iteration of `for res := range resultsChan` (engine.go:434-444).
Collect ==
    /\ mainPc = "collect"
    /\ resultsChan # <<>>
    /\ LET res == Head(resultsChan) IN
       /\ resultsChan' = Tail(resultsChan)
       /\ consumed' = Append(consumed, res.index)
       /\ IF res.err # NoErr
          THEN /\ allErrors' = Append(allErrors, res.err)
               /\ UNCHANGED orderedAudioDataList
          ELSE /\ UNCHANGED allErrors
               /\ IF res.wavData # NilWav
                  THEN orderedAudioDataList' =
                         placeResult(orderedAudioDataList, res, N)
                  ELSE UNCHANGED orderedAudioDataList
    /\ UNCHANGED << segments, restVars, mainPc, next, ret, written, semaphore, wg, pc,
                    attempt, currentErr, expired, cancelled, errChan, audio, produced,
                    retryOf, request, cancelledInFlight >>

\* engine.go:214-235, 450-470: build the list, combine, write the file
\* (os.WriteFile may itself fail).
CombineAndWrite ==
    LET final == finalAudioDataList(orderedAudioDataList, 0, N) IN
    IF Len(final) = 0
    THEN /\ ret' = [kind |-> "allFailed", errors |-> <<>>]
         /\ UNCHANGED written
    ELSE LET c == combineWavData(final) IN
         IF ~c.ok
         THEN /\ ret' = [kind |-> "combine", errors |-> <<>>]
              /\ UNCHANGED written
         ELSE /\ written' = Append(written, c.wav)
              /\ \E k \in { "nil", "write" } : ret' = [kind |-> k, errors |-> <<>>]

\* engine.go:446-470
Finish ==
    /\ mainPc = "collect"
    /\ resultsChan = <<>>
    /\ mainPc' = "returned"
    /\ IF Len(allErrors) > 0
       THEN /\ ret' = [kind |-> "aggregate", errors |-> allErrors]
            /\ UNCHANGED written
       ELSE CombineAndWrite
    /\ UNCHANGED << segments, restVars, next, allErrors, orderedAudioDataList,
                    consumed, semaphore, wg, pc, attempt, currentErr, expired,
                    cancelled, resultsChan, errChan, audio, produced, retryOf, request,
                    cancelledInFlight >>

Next ==
    \/ Cancel
    \/ ReturnNoSegments
    \/ Launch
    \/ WaitAll
    \/ Collect
    \/ Finish
    \/ \E i \in DOMAIN segments :
         \/ Expire(i)
         \/ StartSegment(i)
         \/ QueryReturn(i)
         \/ SynthReturn(i)
         \/ BackoffDone(i)

Spec == Init /\ [][Next]_vars

\* What PostToEngine and its goroutines do by themselves: the scheduler runs
\* every goroutine that can run, a call of the client returns and a timer
\* fires. Cancellation and expiry come from outside and need not happen.
ProgramStep ==
    \/ ReturnNoSegments
    \/ Launch
    \/ WaitAll
    \/ Collect
    \/ Finish
    \/ \E i \in DOMAIN segments :
         \/ StartSegment(i)
         \/ QueryReturn(i)
         \/ SynthReturn(i)
         \/ BackoffDone(i)

SpecFair == Spec /\ WF_vars(ProgramStep)

(***************************************************************************)
(* PostToEngine, engine.go:37-236: the worker body is inline, errors go    *)
(* to errChan through a non-blocking send, results to resultsChan.         *)
(***************************************************************************)
resultSegment(i, w) == [index |-> i, wavData |-> w, err |-> NoErr]

\* engine.go:63-69: the context check that opens each iteration of the
\* launch loop; a cancelled context returns at once, without wg.Wait().
InlineCheckCtx ==
    /\ mainPc = "launch"
    /\ next < N
    /\ IF cancelled
       THEN /\ ret' = [kind |-> "ctx", errors |-> <<>>]
            /\ mainPc' = "returned"
       ELSE /\ mainPc' = "acquire"
            /\ UNCHANGED ret
    /\ UNCHANGED << segments, restVars, next, allErrors, orderedAudioDataList,
                    consumed, written, semaphore, wg, pc, attempt, currentErr,
                    expired, cancelled, resultsChan, errChan, audio, produced, retryOf, request,
                    cancelledInFlight >>

\* engine.go:71-74
InlineLaunch ==
    /\ mainPc = "acquire"
    /\ semaphoreFree
    /\ semaphore' = semaphore + 1
    /\ wg' = wg + 1
    /\ pc' = [pc EXCEPT ![next] = "started"]
    /\ next' = next + 1
    /\ mainPc' = "launch"
    /\ UNCHANGED << segments, restVars, allErrors, orderedAudioDataList, consumed, ret,
                    written, attempt, currentErr, expired, cancelled,
                    resultsChan, errChan, audio, produced, retryOf, request, cancelledInFlight >>

\* `return` with nothing sent (engine.go:82-84, 137-140).
inlineSilentReturn(i) ==
    /\ exitGoroutine(i)
    /\ UNCHANGED << resultsChan, errChan, audio, produced >>

\* sendError (engine.go:88-93), a non-blocking send on a channel of
\* capacity len(segments), then `return`.
sendError(i, e) ==
    /\ IF Len(errChan) < N
       THEN /\ errChan' = Append(errChan, e)
            /\ produced' = [produced EXCEPT ![i] = @ + 1]
       ELSE UNCHANGED << errChan, produced >>
    /\ exitGoroutine(i)
    /\ UNCHANGED << resultsChan, audio >>

\* engine.go:134-143: the retry loop reaches attempt number a.
inlineBeginAttempt(i, a) ==
    IF a > maxRetries \/ CtxDone(i)
    THEN inlineSilentReturn(i)
    ELSE /\ pc' = [pc EXCEPT ![i] = "query"]
         /\ attempt' = [attempt EXCEPT ![i] = a]
         /\ retryOf' = [retryOf EXCEPT ![i] = currentErr[i].phase]
         /\ request' = [request EXCEPT ![i] =
                           QueryRequest(i, determineStyleID(segments[i], i).styleID)]
         /\ currentErr' = [currentErr EXCEPT ![i] = NoCall]
         /\ UNCHANGED << resultsChan, errChan, audio, produced, expired, semaphore, wg >>

\* engine.go:78-143: the goroutine up to its first call.
InlineStartSegment(i) ==
    /\ pc[i] = "started"
    /\ IF cancelled
       THEN inlineSilentReturn(i)
       ELSE LET r == determineStyleID(segments[i], i) IN
            IF r.err # NoErr
            THEN sendError(i, r.err)
            ELSE inlineBeginAttempt(i, 1)
    /\ UNCHANGED << segments, restVars, mainVars, cancelled, cancelledInFlight >>

\* engine.go:154-178: what follows a failed call.
inlineAttemptFailed(i, phase, cause) ==
    IF mayRetry(attempt[i])
    THEN /\ pc' = [pc EXCEPT ![i] = "backoff"]
         /\ currentErr' = [currentErr EXCEPT ![i] = [phase |-> phase, cause |-> cause,
                                             delay |-> backoffDelay(attempt[i])]]
         /\ retryOf' = [retryOf EXCEPT ![i] = "none"]
         /\ UNCHANGED request
         /\ UNCHANGED << resultsChan, errChan, audio, produced, attempt, expired,
                         semaphore, wg >>
    ELSE sendError(i, Err(i, cause))

\* runAudioQuery returns (engine.go:143-146).
InlineQueryReturn(i) ==
    /\ pc[i] = "query"
    /\ \E out \in (IF CtxDone(i) THEN { "ctx" } ELSE { "ok" } \cup QueryErrors) :
         IF out = "ok"
         THEN /\ pc' = [pc EXCEPT ![i] = "synth"]
              /\ retryOf' = [retryOf EXCEPT ![i] = "none"]
              /\ request' = [request EXCEPT ![i] =
                                SynthRequest(QueryPayload(@, attempt[i]), @.voiceID)]
              /\ UNCHANGED << resultsChan, errChan, audio, produced, attempt,
                              currentErr, expired, semaphore, wg >>
         ELSE inlineAttemptFailed(i, "query", out)
    /\ UNCHANGED << segments, restVars, mainVars, cancelled, cancelledInFlight >>

\* runSynthesis returns (engine.go:145-152); on success the goroutine
\* leaves the loop and sends the result (engine.go:186).
InlineSynthReturn(i) ==
    /\ pc[i] = "synth"
    /\ \/ /\ ~CtxDone(i)
          /\ \E w \in WavOutputs(i) :
               /\ resultsChan' = Append(resultsChan, resultSegment(i, w))
               /\ audio' = [audio EXCEPT ![i] = w]
               /\ produced' = [produced EXCEPT ![i] = @ + 1]
               /\ exitGoroutine(i)
               /\ UNCHANGED errChan
       \/ \E cause \in (IF CtxDone(i) THEN { "ctx" } ELSE SynthErrors) :
            inlineAttemptFailed(i, "synth", cause)
    /\ UNCHANGED << segments, restVars, mainVars, cancelled, cancelledInFlight >>

\* engine.go:172-173: time.Sleep(backoffDelay) ends, `continue`.
InlineBackoffDone(i) ==
    /\ pc[i] = "backoff"
    /\ inlineBeginAttempt(i, attempt[i] + 1)
    /\ UNCHANGED << segments, restVars, mainVars, cancelled, cancelledInFlight >>

\* engine.go:190-192: wg.Wait() returns, both channels are closed.
InlineWaitAll ==
    /\ mainPc = "launch"
    /\ ~noSegments(N)
    /\ next = N
    /\ wg = 0
    /\ mainPc' = "collectErrors"
    /\ UNCHANGED << segments, restVars, next, allErrors, orderedAudioDataList,
                    consumed, ret, written, semaphore, wg, pc, attempt,
                    currentErr, expired, cancelled, resultsChan, errChan,
                    audio, produced, retryOf, request, cancelledInFlight >>

\* One iteration of `for err := range errChan` (engine.go:195-200).
InlineCollectError ==
    /\ mainPc = "collectErrors"
    /\ errChan # <<>>
    /\ errChan' = Tail(errChan)
    /\ allErrors' = Append(allErrors, Head(errChan))
    /\ UNCHANGED << segments, restVars, mainPc, next, orderedAudioDataList, consumed,
                    ret, written, semaphore, wg, pc, attempt, currentErr,
                    expired, cancelled, resultsChan, audio, produced, retryOf, request,
                    cancelledInFlight >>

\* engine.go:202-204
InlineErrorsDone ==
    /\ mainPc = "collectErrors"
    /\ errChan = <<>>
    /\ IF Len(allErrors) > 0
       THEN /\ ret' = [kind |-> "aggregate", errors |-> allErrors]
            /\ mainPc' = "returned"
       ELSE /\ mainPc' = "collect"
            /\ UNCHANGED ret
    /\ UNCHANGED << segments, restVars, next, allErrors, orderedAudioDataList,
                    consumed, written, semaphore, wg, pc, attempt, currentErr,
                    expired, cancelled, resultsChan, errChan, audio, produced, retryOf, request,
                    cancelledInFlight >>

\* One iteration of `for res := range resultsChan` (engine.go:207-212).
InlineCollect ==
    /\ mainPc = "collect"
    /\ resultsChan # <<>>
    /\ LET res == Head(resultsChan) IN
       /\ resultsChan' = Tail(resultsChan)
       /\ consumed' = Append(consumed, res.index)
       /\ orderedAudioDataList' = placeResult(orderedAudioDataList, res, N)
    /\ UNCHANGED << segments, restVars, mainPc, next, allErrors, ret, written,
                    semaphore, wg, pc, attempt, currentErr, expired,
                    cancelled, errChan, audio, produced, retryOf, request, cancelledInFlight >>

\* engine.go:214-235
InlineFinish ==
    /\ mainPc = "collect"
    /\ resultsChan = <<>>
    /\ mainPc' = "returned"
    /\ CombineAndWrite
    /\ UNCHANGED << segments, restVars, next, allErrors, orderedAudioDataList,
                    consumed, semaphore, wg, pc, attempt, currentErr, expired,
                    cancelled, resultsChan, errChan, audio, produced, retryOf, request,
                    cancelledInFlight >>

NextInline ==
    \/ Cancel
    \/ ReturnNoSegments
    \/ InlineCheckCtx
    \/ InlineLaunch
    \/ InlineWaitAll
    \/ InlineCollectError
    \/ InlineErrorsDone
    \/ InlineCollect
    \/ InlineFinish
    \/ \E i \in DOMAIN segments :
         \/ Expire(i)
         \/ InlineStartSegment(i)
         \/ InlineQueryReturn(i)
         \/ InlineSynthReturn(i)
         \/ InlineBackoffDone(i)

SpecInline == Init /\ [][NextInline]_vars

(***************************************************************************)
(* PostToEngine, part_005:343-457: style ids are calculated before the     *)
(* goroutines start, retries happen inside the client.                     *)
(***************************************************************************)
\* A style cache earlier runs with the same speaker data may have left.
WarmCaches ==
    { [t \in Tags |-> IF t \in warm
                      THEN Entry(determineStyleID(t, 0).styleID)
                      ELSE NoEntry] :
        warm \in SUBSET { t \in ScriptTags : determineStyleID(t, 0).err = NoErr } }

InitPrecalc ==
    /\ InitRun("precalc")
    /\ preCalc = [i \in DOMAIN segments |-> NoStyle]
    /\ preCalcErrors = <<>>
    /\ styleIDCache \in WarmCaches
    /\ styleIDCacheMutex = Unlocked
    /\ resolving = << >>
    /\ cacheWrites = [t \in Tags |-> << >>]
    /\ wavBuffers = << >>
    /\ codecResult = NoResult
    /\ script = << >>
    /\ lines = << >>
    /\ parser = newScriptParser(<< >>)
    /\ parserPc = "idle"
    /\ SplitIdle
    /\ LoaderIdle
    /\ ClientIdle

\* part_005:348-350
PrecalcReturnNoSegments ==
    /\ mainPc = "precalc"
    /\ noSegments(N)
    /\ ret' = [kind |-> "noSegments", errors |-> <<>>]
    /\ mainPc' = "returned"
    /\ UNCHANGED << segments, restVars, next, allErrors, orderedAudioDataList,
                    consumed, written, semaphore, wg, pc, attempt, currentErr,
                    expired, cancelled, resultsChan, errChan, audio, produced,
                    retryOf, request, cancelledInFlight >>

\* One iteration of the pre-calculation loop (part_005:356-373).
PreCalc ==
    /\ mainPc = "precalc"
    /\ next < N
    /\ LET r == determineStyleIDCached(styleIDCache, speakerData,
                    segments[next], reSpeaker(segments[next]), next) IN
       /\ styleIDCache' = r.cache
       /\ UNCHANGED << styleIDCacheMutex, resolving, cacheWrites, codecVars, parserVars, loaderVars, clientVars >>
       /\ preCalc' = [preCalc EXCEPT ![next] = [styleID |-> r.styleID, err |-> r.err]]
       /\ preCalcErrors' = IF r.err # NoErr THEN Append(preCalcErrors, r.err)
                           ELSE preCalcErrors
    /\ next' = next + 1
    /\ UNCHANGED << segments, mainPc, allErrors, orderedAudioDataList,
                    consumed, ret, written, semaphore, wg, pc, attempt,
                    currentErr, expired, cancelled, resultsChan, errChan,
                    audio, produced, retryOf, request, cancelledInFlight >>

\* part_005:375-385: the short-circuit, else on to the launch loop.
PreCalcDone ==
    /\ mainPc = "precalc"
    /\ ~noSegments(N)
    /\ next = N
    /\ IF allPreCalcFailed(preCalcErrors, N)
       THEN /\ ret' = [kind |-> "allUnresolved", errors |-> preCalcErrors]
            /\ mainPc' = "returned"
            /\ UNCHANGED next
       ELSE /\ mainPc' = "launch"
            /\ next' = 0
            /\ UNCHANGED ret
    /\ UNCHANGED << segments, restVars, allErrors, orderedAudioDataList,
                    consumed, written, semaphore, wg, pc, attempt, currentErr,
                    expired, cancelled, resultsChan, errChan, audio, produced,
                    retryOf, request, cancelledInFlight >>

\* `if seg.Text == "" || seg.Err != nil { continue }` (part_005:389-392).
PrecalcSkip ==
    /\ mainPc = "launch"
    /\ next < N
    /\ preCalc[next].err # NoErr
    /\ next' = next + 1
    /\ UNCHANGED << segments, restVars, mainPc, allErrors,
                    orderedAudioDataList, consumed, ret, written, semaphore,
                    wg, pc, attempt, currentErr, expired, cancelled,
                    resultsChan, errChan, audio, produced, retryOf, request,
                    cancelledInFlight >>

\* part_005:394-397
PrecalcLaunch ==
    /\ mainPc = "launch"
    /\ next < N
    /\ preCalc[next].err = NoErr
    /\ Launch

\* processSegment of part_005:305-317 up to the call of runAudioQuery.
PrecalcStartSegment(i) ==
    /\ pc[i] = "started"
    /\ IF preCalc[i].err # NoErr
       THEN ReturnResult(i, segmentResult(i, NilWav, preCalc[i].err))
       ELSE /\ pc' = [pc EXCEPT ![i] = "query"]
            /\ request' = [request EXCEPT ![i] = QueryRequest(i, preCalc[i].styleID)]
            /\ UNCHANGED << resultsChan, errChan, audio, produced, attempt,
                            currentErr, retryOf, expired, semaphore, wg >>
    /\ UNCHANGED << segments, restVars, mainVars, cancelled, cancelledInFlight >>

\* runAudioQuery returns, its retries over (part_005:317-325); an empty
\* body is an error, otherwise runSynthesis is called.
PrecalcQueryReturn(i) ==
    /\ pc[i] = "query"
    /\ \E out \in (IF CtxDone(i) THEN { "ctx" }
                   ELSE { "ok", "empty" } \cup QueryErrors) :
         IF out = "ok"
         THEN /\ pc' = [pc EXCEPT ![i] = "synth"]
              /\ request' = [request EXCEPT ![i] =
                                SynthRequest(QueryPayload(@, attempt[i]), @.voiceID)]
              /\ UNCHANGED << resultsChan, errChan, audio, produced, attempt,
                              currentErr, retryOf, expired, semaphore, wg >>
         ELSE ReturnResult(i, segmentResult(i, NilWav, Err(i, out)))
    /\ UNCHANGED << segments, restVars, mainVars, cancelled, cancelledInFlight >>

\* runSynthesis returns (part_005:328-334).
PrecalcSynthReturn(i) ==
    /\ pc[i] = "synth"
    /\ \/ /\ ~CtxDone(i)
          /\ \E w \in WavOutputs(i) : ReturnResult(i, segmentResult(i, w, NoErr))
       \/ \E cause \in (IF CtxDone(i) THEN { "ctx" } ELSE SynthErrors) :
            ReturnResult(i, segmentResult(i, NilWav, Err(i, cause)))
    /\ UNCHANGED << segments, restVars, mainVars, cancelled, cancelledInFlight >>

\* part_005:419-456: the pre-calculation errors come first in the list.
PrecalcFinish ==
    /\ mainPc = "collect"
    /\ resultsChan = <<>>
    /\ mainPc' = "returned"
    /\ IF Len(preCalcErrors \o allErrors) > 0
       THEN /\ ret' = [kind |-> "aggregate", errors |-> preCalcErrors \o allErrors]
            /\ UNCHANGED written
       ELSE CombineAndWrite
    /\ UNCHANGED << segments, restVars, next, allErrors, orderedAudioDataList,
                    consumed, semaphore, wg, pc, attempt, currentErr, expired,
                    cancelled, resultsChan, errChan, audio, produced, retryOf, request,
                    cancelledInFlight >>

NextPrecalc ==
    \/ Cancel
    \/ PrecalcReturnNoSegments
    \/ PreCalc
    \/ PreCalcDone
    \/ PrecalcSkip
    \/ PrecalcLaunch
    \/ WaitAll
    \/ Collect
    \/ PrecalcFinish
    \/ \E i \in DOMAIN segments :
         \/ Expire(i)
         \/ PrecalcStartSegment(i)
         \/ PrecalcQueryReturn(i)
         \/ PrecalcSynthReturn(i)

SpecPrecalc == InitPrecalc /\ [][NextPrecalc]_vars

(***************************************************************************)
(* determineStyleID of part_005:254-302, step by step, called from         *)
(* several goroutines on the package-level cache.                          *)
(***************************************************************************)
Callers == 1 .. NumCallers

SpeakerDatas == { speakerData, speakerDataOther }

\* Every caller is a run of PostToEngine (a run resolves its segments one
\* after the other, part_005:356-373) with the speaker data it was given;
\* the cache of a fresh process is empty (part_005:228).
InitResolver ==
    /\ InitRun("returned")
    /\ segments = << >>
    /\ preCalc = << >>
    /\ preCalcErrors = <<>>
    /\ styleIDCache = EmptyCache
    /\ styleIDCacheMutex = Unlocked
    /\ resolving \in [Callers -> { Idle(d) : d \in SpeakerDatas }]
    /\ cacheWrites = [t \in Tags |-> << >>]
    /\ wavBuffers = << >>
    /\ codecResult = NoResult
    /\ script = << >>
    /\ lines = << >>
    /\ parser = newScriptParser(<< >>)
    /\ parserPc = "idle"
    /\ SplitIdle
    /\ LoaderIdle
    /\ ClientIdle

\* styleIDCacheMutex.RLock() succeeds while no writer holds the mutex.
mayRLock(m) == m.writer = 0

\* styleIDCacheMutex.Lock() succeeds while nobody holds the mutex.
mayLock(m) == m.writer = 0 /\ m.readers = {}

\* The caller whose store made the entry of a tag (0: no store yet).
storedBy(tag) ==
    IF cacheWrites[tag] = << >> THEN 0 ELSE cacheWrites[tag][Len(cacheWrites[tag])]

returnFrom(c, styleID, err, hit, torn, from) ==
    [resolving[c] EXCEPT !.pc = "idle",
                         !.ret = [styleID |-> styleID, err |-> err,
                                  hit |-> hit, torn |-> torn, from |-> from]]

\* determineStyleID is called for a tag (part_005:254-255).
Resolve(c, tag) ==
    /\ resolving[c].pc = "idle"
    /\ resolving' = [resolving EXCEPT ![c].pc = "rlock", ![c].tag = tag,
                                      ![c].styleID = 0, ![c].ret = NoReturn]
    /\ UNCHANGED << engineVars, precalcVars, codecVars, parserVars, loaderVars, clientVars, styleIDCache, styleIDCacheMutex,
                    cacheWrites >>

\* part_005:258
RLock(c) ==
    /\ resolving[c].pc = "rlock"
    /\ mayRLock(styleIDCacheMutex)
    /\ styleIDCacheMutex' = [styleIDCacheMutex EXCEPT !.readers = @ \cup { c }]
    /\ resolving' = [resolving EXCEPT ![c].pc = "read"]
    /\ UNCHANGED << engineVars, precalcVars, codecVars, parserVars, loaderVars, clientVars, styleIDCache, cacheWrites >>

\* part_005:259-263: the lookup in the cache and RUnlock; a hit returns.
ReadCache(c) ==
    /\ resolving[c].pc = "read"
    /\ LET e == styleIDCache[resolving[c].tag] IN
       resolving' = [resolving EXCEPT ![c] =
                        IF e.ok THEN returnFrom(c, e.id, NoErr, TRUE, e.torn,
                                             storedBy(resolving[c].tag))
                        ELSE [@ EXCEPT !.pc = "lookup"]]
    /\ styleIDCacheMutex' = [styleIDCacheMutex EXCEPT !.readers = @ \ { c }]
    /\ UNCHANGED << engineVars, precalcVars, codecVars, parserVars, loaderVars, clientVars, styleIDCache, cacheWrites >>

\* part_005:266-301 without the stores: the exact tag, else the default
\* style of the tag's speaker, else the error.
Lookup(c) ==
    /\ resolving[c].pc = "lookup"
    /\ LET tag == resolving[c].tag
           data == resolving[c].data
           baseSpeakerTag == reSpeaker(tag)
       IN  resolving' = [resolving EXCEPT ![c] =
             IF tag \in DOMAIN data.StyleIDMap
             THEN [@ EXCEPT !.pc = "lock", !.styleID = data.StyleIDMap[tag]]
             ELSE IF baseSpeakerTag \in DOMAIN data.DefaultStyleMap
             THEN LET fallbackKey == data.DefaultStyleMap[baseSpeakerTag] IN
                  [@ EXCEPT !.pc = "lock",
                            !.styleID = IF fallbackKey \in DOMAIN data.StyleIDMap
                                        THEN data.StyleIDMap[fallbackKey] ELSE 0]
             ELSE returnFrom(c, 0, Err(0, "resolve"), FALSE, FALSE, 0)]
    /\ UNCHANGED << engineVars, precalcVars, codecVars, parserVars, loaderVars, clientVars, styleIDCache, styleIDCacheMutex,
                    cacheWrites >>

\* The key of the store this caller is about to make: the tag it was
\* called with, also after the fallback (part_005:270, 295).
storeKey(c) == resolving[c].tag

\* part_005:269-270, 294-295: Lock(), and the store begins.
Lock(c) ==
    /\ resolving[c].pc = "lock"
    /\ mayLock(styleIDCacheMutex)
    /\ styleIDCacheMutex' = [styleIDCacheMutex EXCEPT !.writer = c]
    /\ styleIDCache' = [styleIDCache EXCEPT ![storeKey(c)] = TornEntry]
    /\ resolving' = [resolving EXCEPT ![c].pc = "store"]
    /\ UNCHANGED << engineVars, precalcVars, codecVars, parserVars, loaderVars, clientVars, cacheWrites >>

\* part_005:270-273, 295-298: the store ends, Unlock(), return.
Store(c) ==
    /\ resolving[c].pc = "store"
    /\ styleIDCache' = [styleIDCache EXCEPT ![storeKey(c)] = Entry(resolving[c].styleID)]
    /\ cacheWrites' = [cacheWrites EXCEPT ![storeKey(c)] = Append(@, c)]
    /\ styleIDCacheMutex' = [styleIDCacheMutex EXCEPT !.writer = 0]
    /\ resolving' = [resolving EXCEPT ![c] =
                        returnFrom(c, resolving[c].styleID, NoErr, FALSE, FALSE, 0)]
    /\ UNCHANGED << engineVars, precalcVars, codecVars, parserVars, loaderVars, clientVars >>

NextResolver ==
    \E c \in Callers :
        \/ \E tag \in Tags : Resolve(c, tag)
        \/ RLock(c)
        \/ ReadCache(c)
        \/ Lookup(c)
        \/ Lock(c)
        \/ Store(c)

SpecResolver == InitResolver /\ [][NextResolver]_vars

(***************************************************************************)
(* determineStyleID (part_005:254-302, engine.go:283-312) on any speaker   *)
(* data a caller of PostToEngine may pass, in a fresh process.             *)
(***************************************************************************)
\* Speaker data of every shape over the tags: any tags with ids, and for
\* any speakers a default tag, with or without an id of its own.
VoiceTables ==
    { [StyleIDMap |-> m, DefaultStyleMap |-> d] :
          m \in UNION { [S -> { 5, 7 }] : S \in SUBSET Tags },
          d \in UNION { [S -> Tags] : S \in SUBSET { "[A]", "[B]" } } }

InitTables ==
    /\ InitRun("returned")
    /\ segments = << >>
    /\ preCalc = << >>
    /\ preCalcErrors = <<>>
    /\ styleIDCache = EmptyCache
    /\ styleIDCacheMutex = Unlocked
    /\ \E data \in VoiceTables : \E tag \in Tags :
          resolving = << [Idle(data) EXCEPT !.tag = tag] >>
    /\ cacheWrites = [t \in Tags |-> << >>]
    /\ wavBuffers = << >>
    /\ codecResult = NoResult
    /\ script = << >>
    /\ lines = << >>
    /\ parser = newScriptParser(<< >>)
    /\ parserPc = "idle"
    /\ SplitIdle
    /\ LoaderIdle
    /\ ClientIdle

\* One uninterrupted call of determineStyleID.
DetermineStyleID ==
    /\ resolving[1].pc = "idle"
    /\ LET tag == resolving[1].tag
           r == determineStyleIDCached(styleIDCache, resolving[1].data, tag,
                                       reSpeaker(tag), 0)
       IN  /\ resolving' = [resolving EXCEPT
                                ![1].pc = "returned",
                                ![1].styleID = r.styleID,
                                ![1].ret = [NoReturn EXCEPT !.styleID = r.styleID,
                                                            !.err = r.err]]
           /\ styleIDCache' = r.cache
    /\ UNCHANGED << engineVars, precalcVars, codecVars, parserVars, loaderVars,
                    clientVars, styleIDCacheMutex, cacheWrites >>

NextTables == DetermineStyleID

SpecTables == InitTables /\ [][NextTables]_vars

(***************************************************************************)
(* The WAV functions on byte slices: audio.go, and the older               *)
(* combineWavData of wav_utils.go.                                         *)
(***************************************************************************)
RiffChunkIDSize == 4

RiffChunkSizeField == 4

WaveIDSize == 4

WavRiffHeaderSize == RiffChunkIDSize + RiffChunkSizeField + WaveIDSize

FmtChunkIDSize == 4

FmtChunkSizeField == 4

FmtChunkDataSize == 16

WavFmtChunkSize == FmtChunkIDSize + FmtChunkSizeField + FmtChunkDataSize

DataChunkIDSize == 4

DataChunkSizeField == 4

WavDataHeaderSize == DataChunkIDSize + DataChunkSizeField

WavTotalHeaderSize == WavRiffHeaderSize + WavFmtChunkSize + WavDataHeaderSize

\* A uint32 is kept as its two 16-bit halves, [lo, hi] for hi * 2^16 + lo,
\* so that its arithmetic is exact modulo 2^32.
Half == 65536

\* uint32(n) of a non-negative int.
uint32(n) == [lo |-> n % Half, hi |-> (n \div Half) % Half]

\* a + b in uint32.
addUint32(a, b) ==
    [lo |-> (a.lo + b.lo) % Half,
     hi |-> (a.hi + b.hi + ((a.lo + b.lo) \div Half)) % Half]

\* a < b in uint32.
lessUint32(a, b) == a.hi < b.hi \/ (a.hi = b.hi /\ a.lo < b.lo)

\* The int of a uint32 (a slice index).
int(v) == v.hi * Half + v.lo

\* binary.LittleEndian.Uint32 of four bytes.
LittleEndianUint32(b) == [lo |-> b[1] + 256 * b[2], hi |-> b[3] + 256 * b[4]]

\* binary.LittleEndian.PutUint32: the four bytes of a uint32.
LittleEndianPutUint32(v) ==
    << v.lo % 256, v.lo \div 256, v.hi % 256, v.hi \div 256 >>

\* []byte("data")
dataID == << 100, 97, 116, 97 >>

\* extractAudioData of audio.go:36-56 on a byte slice. A slice expression
\* whose high index is below its low index panics.
extractAudioDataBytes(wavBytes) ==
    IF Len(wavBytes) < WavTotalHeaderSize
    THEN [kind |-> "err", data |-> << >>, size |-> uint32(0)]
    ELSE LET dataSizeStartIndex == WavTotalHeaderSize - DataChunkSizeField
             dataSize == LittleEndianUint32(
                             SubSeq(wavBytes, dataSizeStartIndex + 1, WavTotalHeaderSize))
             dataEndIndex == addUint32(uint32(WavTotalHeaderSize), dataSize)
         IN  IF lessUint32(uint32(Len(wavBytes)), dataEndIndex)
             THEN [kind |-> "err", data |-> << >>, size |-> uint32(0)]
             ELSE IF int(dataEndIndex) < WavTotalHeaderSize
             THEN [kind |-> "panic", data |-> << >>, size |-> uint32(0)]
             ELSE [kind |-> "ok",
                   data |-> SubSeq(wavBytes, WavTotalHeaderSize + 1, int(dataEndIndex)),
                   size |-> dataSize]

\* The extraction inside the loop of wav_utils.go:53-67: the slice
\* expression wavBytes[44 : 44+dataSize] is not preceded by a comparison
\* with len(wavBytes); it panics beyond the capacity of the slice and
\* within the capacity yields the bytes behind the length, which a fresh
\* allocation holds as zeros.
extractAudioDataUtils(wavBytes, capacity) ==
    IF Len(wavBytes) < WavTotalHeaderSize
    THEN [kind |-> "err", data |-> << >>, size |-> uint32(0)]
    ELSE LET dataSizeStartIndex == WavTotalHeaderSize - DataChunkSizeField
             dataSize == LittleEndianUint32(
                             SubSeq(wavBytes, dataSizeStartIndex + 1, WavTotalHeaderSize))
             dataEndIndex == addUint32(uint32(WavTotalHeaderSize), dataSize)
         IN  IF \/ lessUint32(uint32(capacity), dataEndIndex)
                \/ int(dataEndIndex) < WavTotalHeaderSize
             THEN [kind |-> "panic", data |-> << >>, size |-> uint32(0)]
             ELSE [kind |-> "ok",
                   data |-> [k \in 1 .. int(dataEndIndex) - WavTotalHeaderSize |->
                                IF WavTotalHeaderSize + k <= Len(wavBytes)
                                THEN wavBytes[WavTotalHeaderSize + k] ELSE 0],
                   size |-> dataSize]

\* buildCombinedWav without the write of audio.go:80: the size field of the
\* data chunk stays zero.
buildCombinedWavNoDataSize(formatHeader, rawData, totalDataSize) ==
    LET dataIDStartIndex == WavRiffHeaderSize + WavFmtChunkSize
        dataSizeStartIndex == WavTotalHeaderSize - DataChunkSizeField
    IN  [k \in 1 .. int(addUint32(uint32(WavTotalHeaderSize), totalDataSize)) |->
            IF k > WavTotalHeaderSize
            THEN (IF k - WavTotalHeaderSize <= Len(rawData)
                  THEN rawData[k - WavTotalHeaderSize] ELSE 0)
            ELSE IF k > dataSizeStartIndex
            THEN 0
            ELSE IF k > dataIDStartIndex
            THEN dataID[k - dataIDStartIndex]
            ELSE IF k <= Len(formatHeader) THEN formatHeader[k] ELSE 0]

\* buildCombinedWav of audio.go:60-86. copy moves as many bytes as both
\* slices have; the bytes make() allocated and nothing wrote are zero.
buildCombinedWav(formatHeader, rawData, totalDataSize) ==
    LET riffChunkDataSize ==
            addUint32(uint32(WaveIDSize + WavFmtChunkSize + WavDataHeaderSize),
                      totalDataSize)
        fileSizeStartIndex == RiffChunkIDSize
        dataIDStartIndex == WavRiffHeaderSize + WavFmtChunkSize
        dataSizeStartIndex == WavTotalHeaderSize - DataChunkSizeField
    IN  [k \in 1 .. int(addUint32(uint32(WavTotalHeaderSize), totalDataSize)) |->
            IF k > WavTotalHeaderSize
            THEN (IF k - WavTotalHeaderSize <= Len(rawData)
                  THEN rawData[k - WavTotalHeaderSize] ELSE 0)
            ELSE IF k > dataSizeStartIndex
            THEN LittleEndianPutUint32(totalDataSize)[k - dataSizeStartIndex]
            ELSE IF k > dataIDStartIndex
            THEN dataID[k - dataIDStartIndex]
            ELSE IF k > fileSizeStartIndex /\ k <= fileSizeStartIndex + RiffChunkSizeField
            THEN LittleEndianPutUint32(riffChunkDataSize)[k - fileSizeStartIndex]
            ELSE IF k <= Len(formatHeader) THEN formatHeader[k] ELSE 0]

\* Lines 69-91 of wav_utils.go: as buildCombinedWav, but the size written
\* behind "RIFF" is WavTotalHeaderSize + totalDataSize - RiffChunkIDSize +
\* RiffChunkSizeField.
buildCombinedWavUtils(formatHeader, rawData, totalDataSize) ==
    LET fileSize ==
            addUint32(uint32(WavTotalHeaderSize - RiffChunkIDSize + RiffChunkSizeField),
                      totalDataSize)
        fileSizeStartIndex == RiffChunkIDSize
        dataIDStartIndex == WavRiffHeaderSize + WavFmtChunkSize
        dataSizeStartIndex == WavTotalHeaderSize - DataChunkSizeField
    IN  [k \in 1 .. int(addUint32(uint32(WavTotalHeaderSize), totalDataSize)) |->
            IF k > WavTotalHeaderSize
            THEN (IF k - WavTotalHeaderSize <= Len(rawData)
                  THEN rawData[k - WavTotalHeaderSize] ELSE 0)
            ELSE IF k > dataSizeStartIndex
            THEN LittleEndianPutUint32(totalDataSize)[k - dataSizeStartIndex]
            ELSE IF k > dataIDStartIndex
            THEN dataID[k - dataIDStartIndex]
            ELSE IF k > fileSizeStartIndex /\ k <= fileSizeStartIndex + RiffChunkSizeField
            THEN LittleEndianPutUint32(fileSize)[k - fileSizeStartIndex]
            ELSE IF k <= Len(formatHeader) THEN formatHeader[k] ELSE 0]

\* The loop of audio.go:111-118 from file i on: the first extraction that
\* fails ends it, else rawData and totalDataSize grow.
RECURSIVE extractAll(_, _, _, _)
extractAll(wavFiles, i, rawData, totalDataSize) ==
    IF i > Len(wavFiles)
    THEN [kind |-> "ok", data |-> rawData, size |-> totalDataSize]
    ELSE LET r == extractAudioDataBytes(wavFiles[i]) IN
         IF r.kind # "ok" THEN r
         ELSE extractAll(wavFiles, i + 1, rawData \o r.data,
                         addUint32(totalDataSize, r.size))

\* The loop of wav_utils.go:53-67 from file i on.
RECURSIVE extractAllUtils(_, _, _, _, _)
extractAllUtils(wavFiles, slack, i, rawData, totalDataSize) ==
    IF i > Len(wavFiles)
    THEN [kind |-> "ok", data |-> rawData, size |-> totalDataSize]
    ELSE LET r == extractAudioDataUtils(wavFiles[i], Len(wavFiles[i]) + slack) IN
         IF r.kind # "ok" THEN r
         ELSE extractAllUtils(wavFiles, slack, i + 1, rawData \o r.data,
                              addUint32(totalDataSize, r.size))

\* combineWavData of audio.go:94-127 on byte slices.
combineWavDataBytes(wavFiles) ==
    LET fmtChunkEndIndex == WavRiffHeaderSize + WavFmtChunkSize IN
    IF Len(wavFiles) = 0 \/ Len(wavFiles[1]) < fmtChunkEndIndex
    THEN [kind |-> "err", data |-> << >>, size |-> uint32(0)]
    ELSE LET formatHeader == SubSeq(wavFiles[1], 1, fmtChunkEndIndex)
             all == extractAll(wavFiles, 1, << >>, uint32(0))
         IN  IF all.kind # "ok" THEN all
             ELSE IF all.size = uint32(0)
             THEN [kind |-> "err", data |-> << >>, size |-> uint32(0)]
             ELSE [kind |-> "ok",
                   data |-> buildCombinedWav(formatHeader, all.data, all.size),
                   size |-> all.size]

\* combineWavData of wav_utils.go:37-92; every slice has slack bytes of
\* capacity behind its length.
combineWavDataUtils(wavFiles, slack) ==
    LET fmtChunkEndIndex == WavRiffHeaderSize + WavFmtChunkSize IN
    IF Len(wavFiles) = 0 \/ Len(wavFiles[1]) < fmtChunkEndIndex
    THEN [kind |-> "err", data |-> << >>, size |-> uint32(0)]
    ELSE LET formatHeader == SubSeq(wavFiles[1], 1, fmtChunkEndIndex)
             all == extractAllUtils(wavFiles, slack, 1, << >>, uint32(0))
         IN  IF all.kind # "ok" THEN all
             ELSE [kind |-> "ok",
                   data |-> buildCombinedWavUtils(formatHeader, all.data, all.size),
                   size |-> all.size]

\* The inputs: how many byte slices a call combines, how many audio bytes
\* a slice carries, and how much capacity a slice has behind its length.
MaxFiles == 2

MaxPayload == 2

MaxSlack == 1

\* "RIFF", a stale size, "WAVE", "fmt ", 16, PCM, one or two channels,
\* 24000 Hz, 16 bit.
FormatHeaders ==
    { << 82, 73, 70, 70,  99, 0, 0, 0,  87, 65, 86, 69,
         102, 109, 116, 32,  16, 0, 0, 0,  1, 0, ch, 0,
         192, 93, 0, 0,  128, 187, 0, 0,  2, 0, 16, 0 >> : ch \in { 1, 2 } }

Payloads ==
    UNION { [1 .. n -> { 7, 8 }] : n \in 0 .. MaxPayload }

\* The sizes a data chunk header may declare for a payload: the bytes
\* present, one byte less or more, and the values from 2^32 - 45 up to
\* 2^32 - 1, where 44 + dataSize reaches and passes 2^32.
DeclaredSizes(payload) ==
    { uint32(n) : n \in { Len(payload), Len(payload) + 1 }
                        \cup (IF Len(payload) > 0 THEN { Len(payload) - 1 } ELSE {}) }
    \cup { [lo |-> lo, hi |-> Half - 1] :
              lo \in { Half - WavTotalHeaderSize - 1, Half - WavTotalHeaderSize, Half - 1 } }

\* Byte slices the client may hand over: a header, a data chunk header and
\* audio bytes, or such a slice cut short.
WavByteSlices ==
    LET whole == UNION { { h \o dataID \o LittleEndianPutUint32(d) \o p :
                               h \in FormatHeaders, d \in DeclaredSizes(p) } :
                           p \in Payloads }
        short == { SubSeq(w, 1, n) :
                       w \in { h \o dataID \o LittleEndianPutUint32(uint32(0)) :
                                   h \in FormatHeaders },
                       n \in { 0, WavRiffHeaderSize + WavFmtChunkSize - 1,
                               WavTotalHeaderSize - 1 } }
    IN  whole \cup short

InitCodec ==
    /\ InitRun("returned")
    /\ segments = << >>
    /\ preCalc = << >>
    /\ preCalcErrors = <<>>
    /\ styleIDCache = EmptyCache
    /\ styleIDCacheMutex = Unlocked
    /\ resolving = << >>
    /\ cacheWrites = [t \in Tags |-> << >>]
    /\ \E n \in 0 .. MaxFiles : wavBuffers \in [1 .. n -> WavByteSlices]
    /\ codecResult = NoResult
    /\ script = << >>
    /\ lines = << >>
    /\ parser = newScriptParser(<< >>)
    /\ parserPc = "idle"
    /\ SplitIdle
    /\ LoaderIdle
    /\ ClientIdle

\* extractAudioData is called on one of the byte slices.
ExtractAudioData(i) ==
    /\ LET r == extractAudioDataBytes(wavBuffers[i]) IN
       codecResult' = [op |-> "extract", index |-> i, kind |-> r.kind,
                       data |-> r.data, size |-> r.size]
    /\ UNCHANGED << engineVars, precalcVars, cacheVars, parserVars, loaderVars, clientVars, wavBuffers >>

\* combineWavData of audio.go is called on the byte slices.
CombineWavData ==
    /\ LET r == combineWavDataBytes(wavBuffers) IN
       codecResult' = [op |-> "combine", index |-> 0, kind |-> r.kind,
                       data |-> r.data, size |-> r.size]
    /\ UNCHANGED << engineVars, precalcVars, cacheVars, parserVars, loaderVars, clientVars, wavBuffers >>

\* combineWavData of wav_utils.go is called on the byte slices.
CombineWavDataUtils ==
    /\ \E slack \in 0 .. MaxSlack :
          LET r == combineWavDataUtils(wavBuffers, slack) IN
          codecResult' = [op |-> "combineUtils", index |-> slack, kind |-> r.kind,
                          data |-> r.data, size |-> r.size]
    /\ UNCHANGED << engineVars, precalcVars, cacheVars, parserVars, loaderVars, clientVars, wavBuffers >>

NextCodec ==
    \/ \E i \in DOMAIN wavBuffers : ExtractAudioData(i)
    \/ CombineWavData
    \/ CombineWavDataUtils

SpecCodec == InitCodec /\ [][NextCodec]_vars

(***************************************************************************)
(* combineWavData of audio.go:94-127 on valid buffers too large to write   *)
(* out: a buffer is its payload size, a length that need not fit 32 bits   *)
(* is a pair [lo, hi] for hi * 2^16 + lo with hi of any size.              *)
(***************************************************************************)
\* How many large buffers a call combines.
MaxLargeFiles == 3

\* len(rawData) after append(rawData, dataChunk...) (audio.go:116).
appendLen(a, b) ==
    [lo |-> (a.lo + b.lo) % Half, hi |-> a.hi + b.hi + ((a.lo + b.lo) \div Half)]

\* The loop of audio.go:111-118 on valid buffers, the zero-size test of 120
\* and buildCombinedWav (60-86): make() allocates 44 + totalDataSize bytes
\* in uint32, the slice expressions of lines 72-80 panic when that is less
\* than 44, and copy (83) moves as many bytes as the allocation has room
\* for behind the header.
combineWavDataSizes(dataSizes) ==
    LET RECURSIVE loop(_, _, _)
        loop(i, rawLen, totalDataSize) ==
            IF i > Len(dataSizes)
            THEN [rawLen |-> rawLen, totalDataSize |-> totalDataSize]
            ELSE loop(i + 1, appendLen(rawLen, dataSizes[i]),
                      addUint32(totalDataSize, dataSizes[i]))
        all == loop(1, uint32(0), uint32(0))
        allocated == addUint32(uint32(WavTotalHeaderSize), all.totalDataSize)
    IN  IF Len(dataSizes) = 0 \/ all.totalDataSize = uint32(0)
        THEN [kind |-> "err", size |-> uint32(0), held |-> uint32(0),
              extracted |-> all.rawLen]
        ELSE IF lessUint32(allocated, uint32(WavTotalHeaderSize))
        THEN [kind |-> "panic", size |-> uint32(0), held |-> uint32(0),
              extracted |-> all.rawLen]
        ELSE [kind |-> "ok", size |-> all.totalDataSize,
              held |-> IF lessUint32(all.rawLen, all.totalDataSize)
                       THEN all.rawLen ELSE all.totalDataSize,
              extracted |-> all.rawLen]

\* Payload sizes from one byte to 2^32 - 1 bytes.
LargeSizes ==
    { uint32(1), uint32(2), [lo |-> 0, hi |-> Half \div 2],
      [lo |-> 1, hi |-> Half \div 2], [lo |-> Half - WavTotalHeaderSize, hi |-> Half - 1],
      [lo |-> Half - 1, hi |-> Half - 1] }

InitLarge ==
    /\ InitRun("returned")
    /\ segments = << >>
    /\ preCalc = << >>
    /\ preCalcErrors = <<>>
    /\ styleIDCache = EmptyCache
    /\ styleIDCacheMutex = Unlocked
    /\ resolving = << >>
    /\ cacheWrites = [t \in Tags |-> << >>]
    /\ \E n \in 0 .. MaxLargeFiles : wavBuffers \in [1 .. n -> LargeSizes]
    /\ codecResult = NoResult
    /\ script = << >>
    /\ lines = << >>
    /\ parser = newScriptParser(<< >>)
    /\ parserPc = "idle"
    /\ SplitIdle
    /\ LoaderIdle
    /\ ClientIdle

\* combineWavData is called on the buffers.
CombineLarge ==
    /\ codecResult = NoResult
    /\ LET r == combineWavDataSizes(wavBuffers) IN
       codecResult' = [op |-> "combine", index |-> 0, kind |-> r.kind,
                       data |-> << >>, size |-> r.size, held |-> r.held,
                       extracted |-> r.extracted]
    /\ UNCHANGED << engineVars, precalcVars, cacheVars, parserVars, loaderVars,
                    clientVars, wavBuffers >>

NextLarge == CombineLarge

SpecLarge == InitLarge /\ [][NextLarge]_vars

(***************************************************************************)
(* The parsers, line by line, on the scripts of a bounded set.             *)
(***************************************************************************)
\* How many tokens a script has.
MaxTokens == 6

\* The scripts of up to MaxTokens tokens; a token is a speaker in brackets,
\* an emotion word in brackets, a letter, a punctuation mark, the end of a
\* line, a combined tag, or a whole tagged line without text.
Scripts ==
    LET ScriptTokens == { << "[", "s", "]" >>, << "[", "e", "]" >>, << "x" >>,
                          << "." >>, << "\n" >>,
                          << "[", "s", "]", "[", "s", "]" >>,
                          << "[", "s", "]", "[", "e", "]", "\n" >> }
        RECURSIVE Flatten(_)
        Flatten(ts) == IF ts = << >> THEN << >> ELSE Head(ts) \o Flatten(Tail(ts))
    IN  { Flatten(ts) :
              ts \in UNION { [1 .. n -> ScriptTokens] : n \in 0 .. MaxTokens } }

\* The caller passes no fallback tag, or a tag of its own.
InitParser ==
    /\ InitRun("returned")
    /\ segments = << >>
    /\ preCalc = << >>
    /\ preCalcErrors = <<>>
    /\ styleIDCache = EmptyCache
    /\ styleIDCacheMutex = Unlocked
    /\ resolving = << >>
    /\ cacheWrites = [t \in Tags |-> << >>]
    /\ wavBuffers = << >>
    /\ codecResult = NoResult
    /\ script \in Scripts
    /\ lines = Split(script)
    /\ \E fallbackTag \in { << >>, << "[", "f", "]", "[", "e", "]" >> } :
          parser = newScriptParser(fallbackTag)
    /\ parserPc = "parsing"
    /\ SplitIdle
    /\ LoaderIdle
    /\ ClientIdle

\* One turn of the loop of parse (part_008:269-275).
ProcessLine ==
    /\ parserPc = "parsing"
    /\ lines # << >>
    /\ LET trimmedLine == TrimSpace(Head(lines)) IN
       parser' = IF trimmedLine = << >> THEN parser
                 ELSE processLine(parser, trimmedLine)
    /\ lines' = Tail(lines)
    /\ UNCHANGED << engineVars, precalcVars, cacheVars, codecVars, loaderVars, clientVars, script, parserPc,
                    textToAppend, charLimit >>

\* part_008:277-278
FinishParsing ==
    /\ parserPc = "parsing"
    /\ lines = << >>
    /\ parser' = finishParsing(parser)
    /\ parserPc' = "finished"
    /\ UNCHANGED << engineVars, precalcVars, cacheVars, codecVars, loaderVars, clientVars, script, lines,
                    textToAppend, charLimit >>

NextParser == ProcessLine \/ FinishParsing

SpecParser == InitParser /\ [][NextParser]_vars

\* One turn of the main loop of script_parser.go:91-187.
InlineProcessLine ==
    /\ parserPc = "parsing"
    /\ lines # << >>
    /\ LET line == TrimSpace(Head(lines)) IN
       parser' = IF line = << >> THEN parser ELSE parseScriptLine(parser, line)
    /\ lines' = Tail(lines)
    /\ UNCHANGED << engineVars, precalcVars, cacheVars, codecVars, loaderVars, clientVars, script, parserPc,
                    textToAppend, charLimit >>

\* script_parser.go:190-222
InlineFinishParsing ==
    /\ parserPc = "parsing"
    /\ lines = << >>
    /\ parser' = parseScriptEnd(parser)
    /\ parserPc' = "finished"
    /\ UNCHANGED << engineVars, precalcVars, cacheVars, codecVars, loaderVars, clientVars, script, lines,
                    textToAppend, charLimit >>

NextParserInline == InlineProcessLine \/ InlineFinishParsing

SpecParserInline == InitParser /\ [][NextParserInline]_vars

(***************************************************************************)
(* The append-and-split loops (part_008:331-353, script_parser.go:123-149) *)
(* turn by turn, for the texts of successive lines of one tag and for any  *)
(* value of maxSegmentCharLength from 1 on.                                *)
(***************************************************************************)
MaxCharLimit == 3
MaxSplitText == 3
MaxSplitLines == 2

InitSplit ==
    /\ InitRun("returned")
    /\ segments = << >>
    /\ preCalc = << >>
    /\ preCalcErrors = <<>>
    /\ styleIDCache = EmptyCache
    /\ styleIDCacheMutex = Unlocked
    /\ resolving = << >>
    /\ cacheWrites = [t \in Tags |-> << >>]
    /\ wavBuffers = << >>
    /\ codecResult = NoResult
    /\ script = << >>
    /\ lines \in UNION { [1 .. n -> UNION { [1 .. k -> { "x", "." }] :
                                                k \in 1 .. MaxSplitText }] :
                          n \in 1 .. MaxSplitLines }
    /\ parser = [newScriptParser(<< >>) EXCEPT
                     !.currentTag = << "[", "s", "]", "[", "s", "]" >>]
    /\ parserPc \in { "appendAndSplitText", "parseScript" }
    /\ textToAppend = << >>
    /\ charLimit \in 1 .. MaxCharLimit
    /\ LoaderIdle
    /\ ClientIdle

\* The loop is entered with the text of the next line of the tag
\* (part_008:315 and 332, script_parser.go:114).
EnterSplitLoop ==
    /\ parserPc \in { "appendAndSplitText", "parseScript" }
    /\ textToAppend = << >>
    /\ lines # << >>
    /\ textToAppend' = Head(lines)
    /\ lines' = Tail(lines)
    /\ UNCHANGED << engineVars, precalcVars, cacheVars, codecVars, loaderVars,
                    clientVars, script, parser, parserPc, charLimit >>

\* One turn of the loop of appendAndSplitText (part_008:333-352).
SplitTurn ==
    /\ parserPc = "appendAndSplitText"
    /\ textToAppend # << >>
    /\ LET sp == splitTextByPunctuationWithin(charLimit, parser, textToAppend)
           q == IF sp.partToAdd # << >>
                THEN [parser EXCEPT !.currentText =
                         (IF @ # << >> THEN @ \o << " " >> ELSE @) \o sp.partToAdd]
                ELSE parser
       IN  /\ parser' = IF sp.remainder # << >>
                        THEN LET r == flushCurrentSegment(q) IN
                             [r EXCEPT !.splitAt = @ \cup { Len(r.segments) }]
                        ELSE q
           /\ textToAppend' = sp.remainder
    /\ UNCHANGED << engineVars, precalcVars, cacheVars, codecVars, loaderVars,
                    clientVars, script, lines, parserPc, charLimit >>

\* One turn of the loop of script_parser.go:123-149.
InlineSplitTurn ==
    /\ parserPc = "parseScript"
    /\ textToAppend # << >>
    /\ LET sp == safeSplitWithin(charLimit, parser, textToAppend)
           c == IF sp.partToAdd # << >>
                THEN [parser EXCEPT !.currentText =
                         (IF @ # << >> THEN @ \o << " " >> ELSE @) \o sp.partToAdd]
                ELSE parser
       IN  /\ parser' = IF sp.remainder # << >>
                        THEN LET r == flushAndReset(c) IN
                             [r EXCEPT !.splitAt = @ \cup { Len(r.segments) }]
                        ELSE c
           /\ textToAppend' = sp.remainder
    /\ UNCHANGED << engineVars, precalcVars, cacheVars, codecVars, loaderVars,
                    clientVars, script, lines, parserPc, charLimit >>

NextSplit == EnterSplitLoop \/ SplitTurn \/ InlineSplitTurn

SpecSplit == InitSplit /\ [][NextSplit]_vars

(***************************************************************************)
(* LoadSpeakers (part_001:69-143)                                          *)
(***************************************************************************)
MaxSpeakers == 3

MaxStyles == 2

\* The responses of /speakers explored: up to MaxSpeakers speakers, the
\* supported ones and one more, each with up to MaxStyles styles, the
\* mapped ones and one more.
VVSpeakers ==
    LET Styles == { [Name |-> "Normal", ID |-> 1], [Name |-> "Happy", ID |-> 2],
                    [Name |-> "Other", ID |-> 3] }
        Speakers == { [Name |-> n, Styles |-> st] :
                          n \in { "A", "B", "C" },
                          st \in UNION { [1 .. k -> Styles] : k \in 0 .. MaxStyles } }
    IN  UNION { [1 .. k -> Speakers] : k \in 0 .. MaxSpeakers }

InitLoader ==
    /\ InitRun("returned")
    /\ segments = << >>
    /\ preCalc = << >>
    /\ preCalcErrors = <<>>
    /\ styleIDCache = EmptyCache
    /\ styleIDCacheMutex = Unlocked
    /\ resolving = << >>
    /\ cacheWrites = [t \in Tags |-> << >>]
    /\ wavBuffers = << >>
    /\ codecResult = NoResult
    /\ script = << >>
    /\ lines = << >>
    /\ parser = newScriptParser(<< >>)
    /\ parserPc = "idle"
    /\ SplitIdle
    /\ vvSpeakers \in VVSpeakers
    /\ loadPc = "get"
    /\ loadNext = 1
    /\ loadData = NoSpeakerData
    /\ loadRet = [data |-> NoSpeakerData, ok |-> FALSE, err |-> "nil"]
    /\ ClientIdle

\* client.Get fails, the status is not 200, or the body does not decode
\* (part_001:78-92).
GetFails ==
    /\ loadPc = "get"
    /\ \E cause \in { "get", "status", "decode" } :
           loadRet' = [data |-> NoSpeakerData, ok |-> FALSE, err |-> cause]
    /\ loadPc' = "returned"
    /\ UNCHANGED << engineVars, precalcVars, cacheVars, codecVars, parserVars, clientVars,
                    vvSpeakers, loadNext, loadData >>

\* The response is decoded and the empty SpeakerData made (part_001:89-98).
Decode ==
    /\ loadPc = "get"
    /\ loadPc' = "loop"
    /\ loadData' = NoSpeakerData
    /\ UNCHANGED << engineVars, precalcVars, cacheVars, codecVars, parserVars, clientVars,
                    vvSpeakers, loadNext, loadRet >>

\* One turn of the loop over vvSpeakers (part_001:101-124).
LoadSpeaker ==
    /\ loadPc = "loop"
    /\ loadNext <= Len(vvSpeakers)
    /\ loadData' = loadSpeaker(loadData, vvSpeakers[loadNext])
    /\ loadNext' = loadNext + 1
    /\ UNCHANGED << engineVars, precalcVars, cacheVars, codecVars, parserVars, clientVars,
                    vvSpeakers, loadPc, loadRet >>

\* After the loop: the defaults are looked up and the function returns
\* (part_001:126-142).
LoadReturn ==
    /\ loadPc = "loop"
    /\ loadNext > Len(vvSpeakers)
    /\ loadRet' = IF Len(missingDefaults(loadData)) > 0
                  THEN [data |-> NoSpeakerData, ok |-> FALSE, err |-> "missing"]
                  ELSE [data |-> loadData, ok |-> TRUE, err |-> "nil"]
    /\ loadPc' = "returned"
    /\ UNCHANGED << engineVars, precalcVars, cacheVars, codecVars, parserVars, clientVars,
                    vvSpeakers, loadNext, loadData >>

NextLoader == GetFails \/ Decode \/ LoadSpeaker \/ LoadReturn

SpecLoader == InitLoader /\ [][NextLoader]_vars

(***************************************************************************)
(* RetryHTTPRequester.DoRequest (client.go:170-208) as runSynthesis calls  *)
(* it (client.go:276): retry.Do calls op until it succeeds, fails with an  *)
(* error that is not retried, or has no attempts left.                     *)
(***************************************************************************)
\* How long a query body is, and how many times retry.Do calls op.
MaxBody == 3
MaxHTTPAttempts == 3

\* http.NewRequestWithContext(ctx, method, fullURL, body) on a *bytes.Reader
\* (client.go:175): the request carries what the reader has not yet given
\* out, with that length as its ContentLength.
NewRequestWithContext(b) ==
    [ContentLength |-> Len(b.data) - b.off,
     Body |-> SubSeq(b.data, b.off + 1, Len(b.data))]

\* isHTTPRetryableError (client.go:101-115) on the outcomes of op.
isHTTPRetryableError(outcome) == outcome \in { "network", "ctx", "5xx" }

\* runSynthesis calls DoRequest with bytes.NewReader(queryBody)
\* (client.go:276).
InitClient ==
    /\ InitRun("returned")
    /\ segments = << >>
    /\ preCalc = << >>
    /\ preCalcErrors = <<>>
    /\ styleIDCache = EmptyCache
    /\ styleIDCacheMutex = Unlocked
    /\ resolving = << >>
    /\ cacheWrites = [t \in Tags |-> << >>]
    /\ wavBuffers = << >>
    /\ codecResult = NoResult
    /\ script = << >>
    /\ lines = << >>
    /\ parser = newScriptParser(<< >>)
    /\ parserPc = "idle"
    /\ SplitIdle
    /\ LoaderIdle
    /\ \E queryBody \in UNION { [1 .. n -> { "a", "b" }] : n \in 1 .. MaxBody } :
          body = [data |-> queryBody, off |-> 0]
    /\ requests = << >>
    /\ clientPc = "op"

\* One call of op (client.go:174-195) and what retry.Do makes of its result
\* (client.go:118-126, 197-207). httpClient.Do reads the request body: all
\* of it when the server answers, any part of it when the connection fails.
Op ==
    /\ clientPc = "op"
    /\ LET req == NewRequestWithContext(body) IN
       /\ requests' = Append(requests, req.Body)
       /\ \E outcome \in { "2xx", "4xx", "5xx", "network", "ctx" } :
          \E read \in 0 .. req.ContentLength :
             /\ outcome \in { "2xx", "4xx", "5xx" } => read = req.ContentLength
             /\ body' = [body EXCEPT !.off = @ + read]
             /\ clientPc' = IF /\ isHTTPRetryableError(outcome)
                               /\ Len(requests') < MaxHTTPAttempts
                            THEN "op" ELSE "returned"
    /\ UNCHANGED << engineVars, precalcVars, cacheVars, codecVars, parserVars,
                    loaderVars >>

NextClient == Op

SpecClient == InitClient /\ [][NextClient]_vars

(***************************************************************************)
(* Properties                                                              *)
(***************************************************************************)
Failing == { i \in DOMAIN segments : audio[i] = NilWav }

RECURSIVE PayloadsFrom(_)
PayloadsFrom(i) ==
    IF i >= N THEN <<>> ELSE audio[i].data \o PayloadsFrom(i + 1)

\* C1: when every segment was synthesized, the payload of the combined
\* buffer is the segments' payloads concatenated by ascending segment
\* index, whatever the order in which the workers completed.
C1_PayloadInSegmentOrder ==
    (written # <<>> /\ Failing = {}) => written[1].data = PayloadsFrom(0)

\* C1 witness: a file was written although the results arrived out of
\* index order.
C1_WrittenAfterOutOfOrderCompletion ==
    /\ written # <<>>
    /\ Failing = {}
    /\ Len(written[1].data) >= 2
    /\ \E k \in 1 .. (Len(consumed) - 1) : consumed[k] > consumed[k + 1]

\* C2: no output file is written unless every segment produced audio, and
\* a run in which some segment produced none returns an error.
C2_NoOutputUnlessAllDone ==
    /\ written # <<>> => Failing = {}
    /\ (mainPc = "returned" /\ Failing # {}) => ret.kind # "nil"

\* C3: an aggregate error names every failing segment by index, names no
\* other index, and comes with no output file.
C3_AggregateNamesEveryFailure ==
    ret.kind = "aggregate" =>
        /\ \A k \in 1 .. Len(ret.errors) : ret.errors[k].idx # {}
        /\ UNION { ret.errors[k].idx : k \in 1 .. Len(ret.errors) } = Failing
        /\ written = <<>>

CancellationKind(r) ==
    \/ r.kind = "ctx"
    \/ /\ r.kind = "aggregate"
       /\ \E k \in 1 .. Len(r.errors) : r.errors[k].cause = "ctx"

\* C4: a run whose context was cancelled while a segment was in flight
\* returns a cancellation error and writes nothing.
C4_CancelInFlightReturnsCancellation ==
    (mainPc = "returned" /\ cancelledInFlight) =>
        (written = <<>> /\ CancellationKind(ret))

\* C5: the workers holding a semaphore permit never exceed
\* maxParallelSegments.
C5_LiveWorkersBounded ==
    Cardinality({ i \in DOMAIN segments : InFlight(i) }) <= maxParallelSegments

\* C5 witness: the semaphore is full while a segment still waits to start.
C5_SemaphoreFullWithSegmentWaiting ==
    /\ Cardinality({ i \in DOMAIN segments : InFlight(i) }) = maxParallelSegments
    /\ mainPc = "launch"
    /\ next < N

\* C6: a segment whose worker has finished has exactly one result, every
\* result carries audio or an error and not both, and the aggregation
\* consumes no result twice.
C6_ExactlyOneResultPerSegment ==
    /\ \A i \in DOMAIN segments :
        /\ pc[i] = "exited" => produced[i] = 1
        /\ Cardinality({ k \in 1 .. Len(consumed) : consumed[k] = i }) <= 1
    /\ \A k \in 1 .. Len(resultsChan) :
        (resultsChan[k].err = NoErr) # (resultsChan[k].wavData = NilWav)

\* C7: a segment is attempted at most maxRetries times; a failed attempt
\* before the last goes to a backoff, from which the next attempt is the
\* only way on besides the context ending; a failed last attempt ends the
\* segment with an error that names it and carries the cause.
C7_AtMostMaxRetriesAttempts ==
    [][\A i \in DOMAIN segments :
        /\ attempt'[i] <= maxRetries
        /\ (InCall(i) /\ pc'[i] = "query" /\ pc[i] # "query")
              => (pc[i] = "backoff" /\ attempt'[i] = attempt[i] + 1)
        /\ (pc[i] \in { "query", "synth" } /\ pc'[i] = "backoff")
              => attempt[i] < maxRetries
        /\ (pc[i] \in { "query", "synth" } /\ attempt[i] < maxRetries
            /\ pc'[i] = "exited")
              => audio'[i] # NilWav
        /\ (pc[i] \in { "query", "synth" } /\ attempt[i] = maxRetries
            /\ pc'[i] = "exited" /\ audio'[i] = NilWav)
              => LET r == resultsChan'[Len(resultsChan')] IN
                 r.index = i /\ r.err.idx = { i } /\ r.err.cause # "nil"
      ]_vars

\* C7 witness: a segment failed on its last attempt with a server error.
C7_FailedOnLastAttempt ==
    \E k \in 1 .. Len(resultsChan) : resultsChan[k].err.cause = "http5xx"

\* C8 (as the spec states it): the retry after a failed runSynthesis does
\* not call runAudioQuery again.
C8_SynthRetrySkipsQuery ==
    \A i \in DOMAIN segments : retryOf[i] = "synth" => pc[i] # "query"

\* C8 (amended): a retry repeats the whole attempt; it starts with
\* runAudioQuery, and runSynthesis is only called after the runAudioQuery
\* of the same attempt succeeded.
C8_RetryRepeatsWholeAttempt ==
    [][\A i \in DOMAIN segments :
        /\ (pc[i] = "backoff" /\ pc'[i] # pc[i])
              => pc'[i] \in { "query", "exited" }
        /\ (pc'[i] = "synth" /\ pc[i] # "synth")
              => (pc[i] = "query" /\ attempt'[i] = attempt[i])
      ]_vars

\* C8 witness: runAudioQuery is running again after runSynthesis failed.
C8_QueryAgainAfterSynthFailure ==
    \E i \in DOMAIN segments :
        retryOf[i] = "synth" /\ pc[i] = "query" /\ attempt[i] > 1

\* C9: a fatal client error (4xx response, undersized payload) is never
\* followed by a backoff and retry.
C9_FatalErrorNotRetried ==
    \A i \in DOMAIN segments :
        pc[i] = "backoff" => currentErr[i].cause \notin FatalCauses

\* C10 (as the spec states it): when segmentTimeout expired during an
\* attempt before the last, the backoff ends in another attempt.
C10_ExpiryIsRetried ==
    [][\A i \in DOMAIN segments :
        (pc[i] = "backoff" /\ expired[i] /\ ~cancelled /\ pc'[i] # pc[i])
            => pc'[i] = "query"
      ]_vars

\* C10 (amended): segmentTimeout bounds all attempts of a segment together;
\* once it expired no further attempt starts and the segment ends without
\* audio, with the context's error or, on the last attempt, the wrapped one.
C10_ExpiryEndsSegment ==
    [][\A i \in DOMAIN segments :
        (expired[i] /\ InCall(i)) =>
            /\ pc'[i] \in { pc[i], "backoff", "exited" }
            /\ audio'[i] = NilWav
            /\ pc'[i] = "exited" =>
                 resultsChan'[Len(resultsChan')].err.cause = "ctx"
      ]_vars

\* C10 witness: segmentTimeout expired during a segment's first attempt,
\* the call failed with the context's error and the worker is backing off,
\* the caller's context still live.
C10_ExpiredDuringFirstAttempt ==
    /\ ~cancelled
    /\ \E i \in DOMAIN segments :
         /\ pc[i] = "backoff"
         /\ expired[i]
         /\ attempt[i] = 1
         /\ currentErr[i].cause = "ctx"

\* The tag has neither an exact nor a default mapping in the speaker data.
Unresolvable(tag) ==
    /\ tag \notin DOMAIN StyleIDMap
    /\ reSpeaker(tag) \notin DOMAIN DefaultStyleMap

\* C11: a segment whose tag does not resolve goes from its start straight
\* to its end with the resolution error; no attempt is counted and neither
\* client call nor a backoff is ever entered for it.
C11_UnresolvedSegmentFailsWithoutCalls ==
    [][\A i \in DOMAIN segments :
        Unresolvable(segments[i]) =>
            /\ attempt'[i] = 0
            /\ pc'[i] \notin { "query", "synth", "backoff" }
            /\ (pc[i] = "started" /\ pc'[i] = "exited") =>
                 /\ resultsChan' = Append(resultsChan,
                        segmentResult(i, NilWav, Err(i, "resolve")))
                 /\ produced'[i] = 1
      ]_vars

\* C11 witness: the worker of a segment with an unresolvable tag has ended
\* while another segment is inside a client call.
C11_UnresolvedSegmentEnded ==
    \E i, j \in DOMAIN segments :
        /\ Unresolvable(segments[i])
        /\ pc[i] = "exited"
        /\ produced[i] = 1
        /\ pc[j] = "query"

C13_NoSegmentsIsFatal ==
    N = 0 =>
        /\ mainPc \in { "launch", "precalc", "returned" }
        /\ mainPc = "returned" => ret.kind = "noSegments"
        /\ semaphore = 0 /\ wg = 0
        /\ written = <<>>

\* C13 witness: the run of a script without segments has returned.
C13_NoSegmentsReturned ==
    N = 0 /\ mainPc = "returned" /\ ret.kind = "noSegments"

\* C14: once the context is cancelled no goroutine is started for a segment
\* that has none yet, no client call is entered, and a worker leaves its
\* backoff only to end.
C14_CancelObservedAtSuspensionPoints ==
    [][cancelled =>
        \A i \in DOMAIN segments :
            /\ ~(pc[i] = "pending" /\ pc'[i] = "started")
            /\ ~(pc'[i] \in { "query", "synth" } /\ pc'[i] # pc[i])
            /\ (pc[i] = "backoff" /\ pc'[i] # pc[i]) => pc'[i] = "exited"
      ]_vars

\* What the resolution of a tag against a voice table is: the id of the
\* tag, else the id of the default tag of the tag's speaker, else an error.
Resolution(data, tag) ==
    IF tag \in DOMAIN data.StyleIDMap
    THEN [ok |-> TRUE, id |-> data.StyleIDMap[tag]]
    ELSE IF reSpeaker(tag) \in DOMAIN data.DefaultStyleMap
    THEN [ok |-> TRUE, id |-> data.StyleIDMap[data.DefaultStyleMap[reSpeaker(tag)]]]
    ELSE [ok |-> FALSE, id |-> 0]

Returned(c) == resolving[c].pc = "idle" /\ resolving[c].ret # NoReturn

\* C15: a call of resolve returns the id of the tag in the caller's table
\* when the tag is present, else the id of the default tag of the tag's
\* speaker, else an error.
C15_ResolveFollowsTable ==
    \A c \in Callers :
        Returned(c) =>
            LET r == Resolution(resolving[c].data, resolving[c].tag) IN
            /\ (resolving[c].ret.err = NoErr) = r.ok
            /\ resolving[c].ret.styleID = r.id

\* C16: every cache entry holds the id that the uncached resolution of its
\* tag gives against the table of each run that uses the cache, a failed
\* resolution leaves no entry, and a hit returns that same id.
C16_CacheAgreesWithRunTable ==
    \A c \in Callers :
        /\ \A t \in Tags :
               styleIDCache[t].ok /\ ~styleIDCache[t].torn =>
                   /\ Resolution(resolving[c].data, t).ok
                   /\ styleIDCache[t].id = Resolution(resolving[c].data, t).id
        /\ Returned(c) /\ resolving[c].ret.hit =>
               resolving[c].ret.styleID =
                   Resolution(resolving[c].data, resolving[c].tag).id

\* C17: a run never observes a cache entry that another run stored.
C17_HitOnlyOwnRunEntry ==
    \A c \in Callers :
        Returned(c) /\ resolving[c].ret.hit => resolving[c].ret.from = c

\* C18: under any interleaving a tag's cache entry is written at most once
\* and no read returns a half-written entry.
C18_TagWrittenAtMostOnce ==
    /\ \A t \in Tags : Len(cacheWrites[t]) <= 1
    /\ \A c \in Callers : Returned(c) => ~resolving[c].ret.torn

\* The four little-endian bytes of a number below 2^31.
LEBytes(n) ==
    << n % 256, (n \div 256) % 256, (n \div 65536) % 256, (n \div 16777216) % 256 >>

\* Whether the payload-size field of a buffer of at least 44 bytes declares
\* more bytes than follow the header, for any value of the field up to
\* 2^32 - 1 (the buffers here are shorter than 2^16 bytes).
DeclaresTooMuch(w) ==
    \/ w[43] # 0
    \/ w[44] # 0
    \/ WavTotalHeaderSize + w[41] + 256 * w[42] > Len(w)

ValidBuffer(w) == Len(w) >= WavTotalHeaderSize /\ ~DeclaresTooMuch(w)

\* The payload of a valid buffer.
PayloadOf(w) == SubSeq(w, WavTotalHeaderSize + 1, WavTotalHeaderSize + w[41] + 256 * w[42])

RECURSIVE PayloadsConcatenated(_)
PayloadsConcatenated(ws) ==
    IF ws = << >> THEN << >>
    ELSE PayloadOf(Head(ws)) \o PayloadsConcatenated(Tail(ws))

\* C19: combine of a non-empty list of valid buffers with non-zero total
\* payload returns 44 + total bytes: the first input's first 36 bytes with
\* 44 + total - 8 little-endian at offset 4, "data" and the little-endian
\* total at offsets 36..43, then the payloads in input order.
C19_CombinedLayout ==
    LET total == Len(PayloadsConcatenated(wavBuffers))
        out == codecResult.data
    IN  /\ codecResult.op \in { "combine", "combineUtils" }
        /\ wavBuffers # << >>
        /\ \A i \in DOMAIN wavBuffers : ValidBuffer(wavBuffers[i])
        /\ total > 0
        => /\ codecResult.kind = "ok"
           /\ Len(out) = WavTotalHeaderSize + total
           /\ SubSeq(out, 1, 4) = SubSeq(wavBuffers[1], 1, 4)
           /\ SubSeq(out, 5, 8) = LEBytes(WavTotalHeaderSize + total - 8)
           /\ SubSeq(out, 9, 36) = SubSeq(wavBuffers[1], 9, 36)
           /\ SubSeq(out, 37, 40) = << 100, 97, 116, 97 >>
           /\ SubSeq(out, 41, 44) = LEBytes(total)
           /\ SubSeq(out, 45, Len(out)) = PayloadsConcatenated(wavBuffers)

\* C20: extract returns an error when the buffer is shorter than 44 bytes
\* or declares more payload than it holds, whatever the 32-bit value of the
\* size field, and otherwise exactly the declared payload.
C20_ExtractChecksBounds ==
    codecResult.op = "extract" =>
        LET w == wavBuffers[codecResult.index] IN
        IF Len(w) < WavTotalHeaderSize \/ DeclaresTooMuch(w)
        THEN codecResult.kind = "err"
        ELSE codecResult.kind = "ok" /\ codecResult.data = PayloadOf(w)

\* C21: combine returns an error and no buffer when the list is empty, when
\* a buffer at any position is shorter than 44 bytes or declares more
\* payload than it holds, or when the total payload is zero.
C21_CombineRejectsBadInput ==
    /\ codecResult.op \in { "combine", "combineUtils" }
    /\ \/ wavBuffers = << >>
       \/ \E i \in DOMAIN wavBuffers : ~ValidBuffer(wavBuffers[i])
       \/ Len(PayloadsConcatenated(wavBuffers)) = 0
    => codecResult.kind = "err" /\ codecResult.data = << >>

\* C22: every segment the segmenter has emitted has a text of at most
\* maxSegmentCharLength characters.
C22_SegmentTextBounded ==
    \A k \in DOMAIN parser.segments :
        Len(parser.segments[k].Text) <= maxSegmentCharLength

\* The emitted segments written back as a script, one line tag + text each.
RECURSIVE AsScript(_)
AsScript(segs) ==
    IF segs = << >> THEN << >>
    ELSE Head(segs).SpeakerTag \o Head(segs).Text
         \o (IF Len(segs) > 1 THEN << "\n" >> ELSE << >>) \o AsScript(Tail(segs))

\* C23: segmenting the emitted segments, written back as lines tag + text,
\* gives the same segment list again.
C23_ResegmentingIsIdentity ==
    parserPc = "finished" =>
        parseScript(AsScript(parser.segments), parser.fallbackTag) = parser.segments

\* The combined tags of the tagged lines of a script.
InputTags(scr) ==
    LET ls == Split(scr) IN
    { reScriptParse(TrimSpace(ls[k])).speakerTag \o reScriptParse(TrimSpace(ls[k])).vvStyleTag :
          k \in { j \in DOMAIN ls : reScriptParse(TrimSpace(ls[j])).ok } }

\* C24: the tag of every emitted segment is non-empty and is the combined
\* tag of a tagged input line or the fallback tag.
C24_TagFromInputOrFallback ==
    \A k \in DOMAIN parser.segments :
        /\ parser.segments[k].SpeakerTag # << >>
        /\ \/ parser.segments[k].SpeakerTag \in InputTags(script)
           \/ parser.segments[k].SpeakerTag = parser.fallbackTag

\* A line that is a speaker group, a style group and a text.
WellFormedLine(line) ==
    /\ reScriptParse(line).ok
    /\ Len(reScriptParse(line).speakerTag) = 3
    /\ Len(reScriptParse(line).vvStyleTag) = 3

WithoutSpaces(str) == SelectSeq(str, LAMBDA c : c # " ")

RECURSIVE InputText(_)
InputText(ls) ==
    IF ls = << >> THEN << >>
    ELSE WithoutSpaces(reEmotionRemove(reScriptParse(TrimSpace(Head(ls))).textPart))
         \o InputText(Tail(ls))

RECURSIVE SegmentText(_)
SegmentText(segs) ==
    IF segs = << >> THEN << >>
    ELSE WithoutSpaces(Head(segs).Text) \o SegmentText(Tail(segs))

\* C25: when every line of the input is a well-formed tagged line, the
\* texts of the emitted segments, joined without the separators, are the
\* texts of the lines without their decorative tags.
C25_NoTextLost ==
    /\ parserPc = "finished"
    /\ \A k \in DOMAIN Split(script) : WellFormedLine(TrimSpace(Split(script)[k]))
    => SegmentText(parser.segments) = InputText(Split(script))

\* C26: when text is buffered and the next line is a tagged line, that line
\* is recognised: its tag becomes the open segment's tag and the buffer is
\* used up.
C26_BufferedTextJoinsTaggedLine ==
    [][ /\ parserPc = "parsing"
        /\ lines # << >>
        /\ lines' = Tail(lines)
        /\ parser.textBuffer # << >>
        /\ reScriptParse(TrimSpace(Head(lines))).ok
        => /\ parser'.textBuffer = << >>
           /\ parser'.currentTag =
                  reScriptParse(TrimSpace(Head(lines))).speakerTag
                  \o reScriptParse(TrimSpace(Head(lines))).vvStyleTag ]_vars

\* The segments emitted once the open segment is closed at end of input.
EmittedAtEnd ==
    { parser.segments } \cup
    { Append(parser.segments, [SpeakerTag |-> parser.currentTag, Text |-> t]) :
          t \in { TrimSpace(reEmotionRemove(parser.currentText)) } \ { << >> } }

\* Leftover text given the last emitted tag, else the fallback tag, else
\* dropped.
Attributed(base, leftover) ==
    IF base # << >>
    THEN Append(base, [SpeakerTag |-> base[Len(base)].SpeakerTag, Text |-> leftover])
    ELSE IF parser.fallbackTag # << >>
    THEN << [SpeakerTag |-> parser.fallbackTag, Text |-> leftover] >>
    ELSE base

\* C27 as stated: at end of input buffered text always becomes a segment
\* with the last emitted tag, else with the fallback tag, and is dropped
\* only when there is neither.
C27_LeftoverAlwaysAttributed ==
    [][ parserPc = "parsing" /\ parserPc' = "finished" /\ parser.textBuffer # << >>
        => \E base \in EmittedAtEnd :
               parser'.segments =
                   Attributed(base, TrimSpace(reEmotionRemove(parser.textBuffer))) ]_vars

\* C27: at end of input buffered text of which something is left without
\* the decorative tags becomes a segment with the last emitted tag, else
\* with the fallback tag, and is dropped when there is neither; buffered
\* text of which nothing is left adds no segment.
C27_LeftoverAttributed ==
    [][ parserPc = "parsing" /\ parserPc' = "finished" /\ parser.textBuffer # << >>
        => \E base \in EmittedAtEnd :
               parser'.segments =
                   IF TrimSpace(reEmotionRemove(parser.textBuffer)) = << >> THEN base
                   ELSE Attributed(base, TrimSpace(reEmotionRemove(parser.textBuffer))) ]_vars

\* Leftover text was emitted with the tag of the segment before it.
C27_LeftoverGotLastTag ==
    /\ parserPc = "finished"
    /\ parser.textBuffer # << >>
    /\ Len(parser.segments) = 2
    /\ parser.segments[2].SpeakerTag = parser.segments[1].SpeakerTag
    /\ parser.segments[2].Text = TrimSpace(reEmotionRemove(parser.textBuffer))

C27_LeftoverGotFallbackTag ==
    /\ parserPc = "finished"
    /\ parser.textBuffer # << >>
    /\ Len(parser.segments) = 1
    /\ parser.segments[1].SpeakerTag = parser.fallbackTag

\* C28: the text of every emitted segment is non-empty and holds no
\* bracketed marker.
C28_TextWithoutMarkers ==
    \A k \in DOMAIN parser.segments :
        /\ parser.segments[k].Text # << >>
        /\ \A j \in DOMAIN parser.segments[k].Text :
               parser.segments[k].Text[j] \notin { "[", "]" }

\* The supported speaker has a style named as the default style in the
\* response of /speakers.
HasDefaultStyle(mapping) ==
    \E k \in DOMAIN vvSpeakers :
        /\ vvSpeakers[k].Name = mapping.APIName
        /\ \E j \in DOMAIN vvSpeakers[k].Styles :
               /\ vvSpeakers[k].Styles[j].Name \in DOMAIN styleApiNameToToolTag
               /\ styleApiNameToToolTag[vvSpeakers[k].Styles[j].Name] = VvTagNormal

\* C29: when LoadSpeakers returns a table, every supported speaker has an
\* entry in DefaultStyleMap and every default tag is a key of StyleIDMap;
\* when a supported speaker has no default style in the response, it
\* returns an error and no table.
C29_LoadedTableHasDefaults ==
    loadPc = "returned" =>
        /\ loadRet.ok =>
               /\ loadRet.err = "nil"
               /\ \A k \in DOMAIN SupportedSpeakers :
                      SupportedSpeakers[k].ToolTag \in DOMAIN loadRet.data.DefaultStyleMap
               /\ \A s \in DOMAIN loadRet.data.DefaultStyleMap :
                      loadRet.data.DefaultStyleMap[s] \in DOMAIN loadRet.data.StyleIDMap
        /\ (\E k \in DOMAIN SupportedSpeakers : ~HasDefaultStyle(SupportedSpeakers[k]))
               => ~loadRet.ok /\ loadRet.err # "nil"

\* A table was returned for a response that lists a third speaker and a
\* style that is not mapped.
C29_TableReturned ==
    /\ loadPc = "returned"
    /\ loadRet.ok
    /\ Len(vvSpeakers) = MaxSpeakers
    /\ \E k \in DOMAIN vvSpeakers :
           \E j \in DOMAIN vvSpeakers[k].Styles :
               vvSpeakers[k].Styles[j].Name \notin DOMAIN styleApiNameToToolTag

\* The state of a segment: a worker in a backoff is still in the phase whose
\* call failed; a worker that has ended is Done when it returned audio.
SegmentState(p, failed, wav) ==
    CASE p = "pending" -> "Pending"
      [] p = "started" -> "Resolving"
      [] p = "query"   -> "Querying"
      [] p = "synth"   -> "Synthesizing"
      [] p = "backoff" -> IF failed.phase = "synth" THEN "Synthesizing" ELSE "Querying"
      [] p = "exited"  -> IF wav # NilWav THEN "Done" ELSE "Failed"

ForwardMoves ==
    { << "Pending", "Resolving" >>, << "Resolving", "Querying" >>,
      << "Querying", "Synthesizing" >>, << "Synthesizing", "Done" >>,
      << "Resolving", "Failed" >>, << "Querying", "Failed" >>,
      << "Synthesizing", "Failed" >> }

\* Done and Failed are left by no step and no call is made in them; a
\* runSynthesis call is made only from the runAudioQuery of the same
\* attempt, with the payload that query returned and its voice id.
TerminalAndCallOrder(i) ==
    /\ pc[i] = "exited" => pc'[i] = "exited" /\ audio'[i] = audio[i]
    /\ pc'[i] \in { "pending", "started", "exited" } => request'[i] = NoRequest
    /\ pc'[i] = "query" =>
           /\ request'[i].op = "query"
           /\ request'[i].text = i
    /\ pc'[i] = "synth" =>
           /\ request'[i].op = "synth"
           /\ request'[i].payload.text = i
           /\ request'[i].payload.attempt = attempt'[i]
           /\ request'[i].payload.voiceID = request'[i].voiceID
    /\ (pc'[i] = "synth" /\ pc[i] # "synth") =>
           /\ pc[i] = "query"
           /\ attempt'[i] = attempt[i]
           /\ request'[i].voiceID = request[i].voiceID

\* C30 as stated: a segment moves only forward along Pending, Resolving,
\* Querying, Synthesizing, Done, or to Failed.
C30_SegmentMovesOnlyForward ==
    [][\A i \in DOMAIN segments :
        LET from == SegmentState(pc[i], currentErr[i], audio[i])
            to == SegmentState(pc'[i], currentErr'[i], audio'[i])
        IN  /\ from # to => << from, to >> \in ForwardMoves
            /\ TerminalAndCallOrder(i)
      ]_vars

\* C30: a segment moves forward along Pending, Resolving, Querying,
\* Synthesizing, Done, or to Failed, or, when the attempt whose
\* runSynthesis failed is retried, from Synthesizing back to Querying for
\* the next attempt; Done and Failed are terminal and no call is made in
\* them; runSynthesis is called only after the successful runAudioQuery of
\* the same attempt, with its payload and the same voice id.
C30_SegmentLifecycle ==
    [][\A i \in DOMAIN segments :
        LET from == SegmentState(pc[i], currentErr[i], audio[i])
            to == SegmentState(pc'[i], currentErr'[i], audio'[i])
        IN  /\ from # to =>
                \/ << from, to >> \in ForwardMoves
                \/ /\ << from, to >> = << "Synthesizing", "Querying" >>
                   /\ pc[i] = "backoff"
                   /\ attempt'[i] = attempt[i] + 1
            /\ TerminalAndCallOrder(i)
      ]_vars

\* C30 witness: one segment is Done while runSynthesis runs for another
\* on a later attempt, with the payload of that attempt's query.
C30_SynthesizingOnLaterAttempt ==
    \E i, j \in DOMAIN segments :
        /\ pc[i] = "exited" /\ audio[i] # NilWav
        /\ pc[j] = "synth" /\ attempt[j] > 1
        /\ request[j].payload.attempt = attempt[j]

(***************************************************************************)
(* Merging of lines and the order of the segments.                         *)
(***************************************************************************)
\* The line a turn of the loop works on, as processLine sees it
\* (part_008:283-299).
CurrentLine ==
    LET trimmedLine == TrimSpace(Head(lines))
        textToProcess == IF parser.textBuffer # << >>
                         THEN parser.textBuffer \o << " " >> \o trimmedLine
                         ELSE trimmedLine
        matches == reScriptParse(textToProcess)
    IN  [blank |-> trimmedLine = << >>,
         tagged |-> matches.ok,
         tag |-> matches.speakerTag \o matches.vvStyleTag,
         text |-> IF matches.ok THEN matches.textPart ELSE textToProcess]

\* C31, as far as it holds: in every turn of the line loop the segments
\* emitted so far stay where they are (input order); a tagged line whose tag
\* is the open segment's tag and whose text fits is joined to the open text
\* by one space and emits nothing; a tagged line with another tag emits the
\* open segment before anything else; and while the open tag stays the same
\* a segment is emitted only by a flush that a text over the budget forced.
C31_MergeAndFlushInOrder ==
    [][(parserPc = "parsing" /\ lines # << >> /\ lines' = Tail(lines)) =>
        LET l == CurrentLine
            n == Len(parser.segments)
            open == TrimSpace(reEmotionRemove(parser.currentText))
        IN  /\ Len(parser'.segments) >= n
            /\ SubSeq(parser'.segments, 1, n) = parser.segments
            /\ (/\ ~l.blank /\ l.tagged
                /\ l.tag = parser.currentTag
                /\ parser.currentText # << >> /\ l.text # << >>
                /\ Len(parser.currentText) + 1 + Len(l.text) <= maxSegmentCharLength)
               => /\ parser'.segments = parser.segments
                  /\ parser'.currentText = parser.currentText \o << " " >> \o l.text
            /\ (/\ ~l.blank /\ l.tagged
                /\ parser.currentTag # << >> /\ l.tag # parser.currentTag
                /\ open # << >>)
               => /\ Len(parser'.segments) > n
                  /\ parser'.segments[n + 1] =
                         [SpeakerTag |-> parser.currentTag, Text |-> open]
            /\ parser'.currentTag = parser.currentTag
               => \A k \in n + 1 .. Len(parser'.segments) : k \in parser'.splitAt
      ]_vars

\* C31 as the specification states it: two adjacent emitted segments share a
\* tag only where a length split occurred.
C31_AdjacentShareTagOnlyAtSplit ==
    \A k \in 1 .. Len(parser.segments) - 1 :
        parser.segments[k].SpeakerTag = parser.segments[k + 1].SpeakerTag
            => k \in parser.splitAt

\* Two lines with one tag were merged into one segment.
C31_LinesMerged ==
    /\ script = << "[", "s", "]", "[", "s", "]", "x", "\n",
                   "[", "s", "]", "[", "s", "]", "x" >>
    /\ parserPc = "finished"
    /\ parser.segments = << [SpeakerTag |-> << "[", "s", "]", "[", "s", "]" >>,
                             Text |-> << "x", " ", "x" >>] >>

(***************************************************************************)
(* Where a text over the budget is cut.                                    *)
(***************************************************************************)
\* C32: when the text of a line does not fit in what is left of the open
\* segment's budget, the part taken ends at the last punctuation mark within
\* what is left if there is one and else exactly at the budget; the filled
\* segment is emitted next and the rest goes on under the same tag.
C32_CutAtPunctuationOrBudget ==
    [][(parserPc = "parsing" /\ lines # << >> /\ lines' = Tail(lines)) =>
        LET l == CurrentLine
            changes == l.tagged /\ parser.currentTag # << >> /\ l.tag # parser.currentTag
            \* the open text and tag the line's text is appended to
            base == IF changes THEN << >> ELSE parser.currentText
            tag == IF l.tagged THEN l.tag ELSE parser.currentTag
            \* the segments before the text is appended
            n == Len(parser.segments) +
                 (IF changes /\ TrimSpace(reEmotionRemove(parser.currentText)) # << >>
                  THEN 1 ELSE 0)
            space == IF base # << >> THEN 1 ELSE 0
            left == maxSegmentCharLength - Len(base) - space
            marks == { m \in 1 .. Len(l.text) : m <= left /\ l.text[m] = "." }
            cut == IF marks # {} THEN CHOOSE m \in marks : \A o \in marks : o <= m
                   ELSE IF left > 0 THEN left ELSE 0
            filled == IF cut = 0 THEN base
                      ELSE base \o (IF space = 1 THEN << " " >> ELSE << >>)
                                \o SubSeq(l.text, 1, cut)
            out == TrimSpace(reEmotionRemove(filled))
        IN  (/\ ~l.blank
             /\ l.tagged \/ parser.currentTag # << >>
             /\ l.text # << >>
             /\ Len(base) + space + Len(l.text) > maxSegmentCharLength)
            => /\ parser'.currentTag = tag
               /\ \A k \in n + 1 .. Len(parser'.segments) :
                      parser'.segments[k].SpeakerTag = tag
               /\ out # << >> =>
                      /\ Len(parser'.segments) > n
                      /\ parser'.segments[n + 1] = [SpeakerTag |-> tag, Text |-> out]
      ]_vars

(***************************************************************************)
(* The delays of the retries.                                              *)
(***************************************************************************)
\* C33: a goroutine backs off only after a failed attempt that is not the
\* last one, and after failed attempt k it waits retryDelay * 2^(k-1): 2 s
\* after the first and 4 s after the second.
C33_ExponentialBackoff ==
    \A i \in DOMAIN segments :
        pc[i] = "backoff" =>
            /\ attempt[i] \in 1 .. maxRetries - 1
            /\ currentErr[i].delay = retryDelay * 2 ^ (attempt[i] - 1)
            /\ attempt[i] = 1 => currentErr[i].delay = 2000
            /\ attempt[i] = 2 => currentErr[i].delay = 4000

\* A goroutine waits 4 s after its second failed attempt.
C33_BackoffAfterSecondAttempt ==
    \E i \in DOMAIN segments :
        pc[i] = "backoff" /\ attempt[i] = 2 /\ currentErr[i].delay = 4000

(***************************************************************************)
(* Progress of a run.                                                      *)
(***************************************************************************)
\* C34: with calls that return, a run of any number of segments does not
\* get stuck. The permits held are exactly those of the goroutines that run
\* (each is released once, when its goroutine exits) and never more than
\* maxParallelSegments, resultsChan never holds more than its len(segments)
\* slots, and in the end the launch loop is past every segment, every
\* goroutine has exited with its permit back, and PostToEngine has returned.
C34_RunTerminates ==
    /\ [](/\ semaphore = Cardinality({ i \in DOMAIN segments :
                                          pc[i] \notin { "pending", "exited" } })
          /\ semaphore <= maxParallelSegments
          /\ Len(resultsChan) <= N)
    /\ <>(/\ mainPc = "returned"
          /\ next = N
          /\ \A i \in DOMAIN segments : pc[i] = "exited"
          /\ semaphore = 0)

\* A run of more segments than permits has returned with every goroutine
\* exited and every permit back.
C34_LongRunReturned ==
    /\ N > maxParallelSegments
    /\ mainPc = "returned"
    /\ \A i \in DOMAIN segments : pc[i] = "exited"
    /\ semaphore = 0

(***************************************************************************)
(* The goroutines of a run that has returned.                              *)
(***************************************************************************)
\* C35: when PostToEngine has returned, whatever it returned, every
\* goroutine it launched has exited: none is before or in a call of the
\* client, backing off, or about to send on a channel.
C35_NoReturnWhileWorkersRun ==
    mainPc = "returned" =>
        \A i \in DOMAIN segments : pc[i] \in { "pending", "exited" }

(***************************************************************************)
(* The body of the requests of one call of DoRequest.                      *)
(***************************************************************************)
\* C36: every request DoRequest makes for one synthesis, the first and each
\* retry, carries the whole query body.
C36_EveryAttemptSendsWholeBody ==
    \A k \in DOMAIN requests : requests[k] = body.data

(***************************************************************************)
(* Combining what was combined.                                            *)
(***************************************************************************)
\* A valid buffer with a payload whose format header is that of w.
SharesFormat(w, c) ==
    /\ ValidBuffer(c)
    /\ PayloadOf(c) # << >>
    /\ SubSeq(c, 1, WavRiffHeaderSize + WavFmtChunkSize)
           = SubSeq(w, 1, WavRiffHeaderSize + WavFmtChunkSize)

\* C37: for valid buffers with non-zero payloads and one format header,
\* combine succeeds, extract accepts its output and returns the payloads of
\* the inputs in order, and combining the output with one more such buffer
\* gives what combining all the buffers at once gives.
C37_CombineIsCompositional ==
    (/\ codecResult.op = "combine"
     /\ wavBuffers # << >>
     /\ \A i \in DOMAIN wavBuffers : SharesFormat(wavBuffers[1], wavBuffers[i]))
    => /\ codecResult.kind = "ok"
       /\ extractAudioDataBytes(codecResult.data).kind = "ok"
       /\ extractAudioDataBytes(codecResult.data).data
              = extractAll(wavBuffers, 1, << >>, uint32(0)).data
       /\ \A c \in { w \in WavByteSlices : Len(w) >= WavTotalHeaderSize } :
              SharesFormat(wavBuffers[1], c) =>
                  combineWavDataBytes(<< codecResult.data, c >>)
                      = combineWavDataBytes(wavBuffers \o << c >>)

\* Two buffers with payloads and one format header have been combined.
C37_TwoBuffersCombined ==
    /\ codecResult.op = "combine"
    /\ codecResult.kind = "ok"
    /\ Len(wavBuffers) = 2
    /\ \A i \in DOMAIN wavBuffers : SharesFormat(wavBuffers[1], wavBuffers[i])
    /\ Len(codecResult.data) = WavTotalHeaderSize + 2 * MaxPayload

(***************************************************************************)
(* Payloads whose sizes add up to 2^32 bytes or more.                      *)
(***************************************************************************)
\* C38: a successful combine returns a buffer that holds no less payload
\* than the payloads extracted from its inputs, also when their sizes add up
\* to more than a 32-bit size field can say.
C38_NoSilentTruncation ==
    (codecResult.op = "combine" /\ codecResult.kind = "ok")
        => ~lessUint32(codecResult.held, codecResult.extracted)

====
